---- MODULE Spec2Model ----
(***************************************************************************)
(* Help Scout MCP server: the tool handlers of src/src/index.ts, the      *)
(* InboxClient of src/src/inbox-client.ts (OAuth2 client-credentials      *)
(* token cache) and the DocsClient (static Basic-Auth key).               *)
(*                                                                         *)
(* The JavaScript runtime runs one job at a time; a handler gives up the  *)
(* thread only at an await.  Every action below is the code of one        *)
(* invocation between two waits, so actions of different invocations      *)
(* interleave exactly where the runtime lets them.  `await fetch(...)`    *)
(* and the `await response.text()` or `await response.json()` that        *)
(* follows it are one wait, for the complete response: the code between   *)
(* them reads the status only.                                            *)
(***************************************************************************)
EXTENDS Integers, Sequences, FiniteSets, TLC

\* ------------------------------------------------------------------ bounds
MaxInvocations == 2     \* tool invocations in one behaviour
MaxTicks == 2           \* clock readings after the first one
TickMs == 30000         \* granularity at which the clock is observed

\* --------------------------------------------------------- program constants
MarginSec == 60         \* inbox-client.ts:49  (data.expires_in - 60)
MsPerSec == 1000        \* inbox-client.ts:49  * 1000

Slots == {1, 2}         \* invocations the dispatcher may have in flight at once

Undefined == "<undefined>"   \* an environment variable that is not set
Null == "<null>"             \* JavaScript null (accessToken: string | null)
EnvValues == {Undefined, "", "secret"}

\* Tokens and lifetimes the token endpoint may answer with.
Tokens == {"tokA", "tokB"}
Lifetimes == {30, 60, 90}

DocsTools ==
    {"docs_list_sites", "docs_get_site", "docs_create_site", "docs_update_site",
     "docs_delete_site", "docs_list_collections", "docs_get_collection",
     "docs_create_collection", "docs_update_collection", "docs_delete_collection",
     "docs_list_categories", "docs_get_category", "docs_create_category",
     "docs_update_category", "docs_update_category_order", "docs_delete_category",
     "docs_list_articles", "docs_search_articles", "docs_get_article",
     "docs_create_article", "docs_update_article", "docs_delete_article",
     "docs_list_related_articles", "docs_list_revisions", "docs_get_revision",
     "docs_save_draft", "docs_delete_draft", "docs_list_redirects",
     "docs_get_redirect", "docs_create_redirect", "docs_update_redirect",
     "docs_delete_redirect"}

InboxTools ==
    {"inbox_list_conversations", "inbox_get_conversation",
     "inbox_create_conversation", "inbox_delete_conversation",
     "inbox_list_threads", "inbox_create_reply", "inbox_create_note",
     "inbox_list_customers", "inbox_get_customer", "inbox_create_customer",
     "inbox_list_mailboxes", "inbox_get_mailbox", "inbox_list_users",
     "inbox_get_user", "inbox_get_me", "inbox_list_tags"}

Tools == DocsTools \cup InboxTools

\* Handlers that await the client call and then return a fixed acknowledgement
\* instead of the client's result.
AckTools ==
    {"docs_delete_site", "docs_delete_collection", "docs_delete_category",
     "docs_delete_article", "docs_save_draft", "docs_delete_draft",
     "docs_delete_redirect", "inbox_delete_conversation"}

VARIABLES
    apiKey, appId, appSecret,   \* process.env.HELPSCOUT_*
    docs, inbox,                \* the two clients, or Null
    accessToken, tokenExpiry,   \* InboxClient's token cache
    now,                        \* Date.now(), in ms
    calls,                      \* per slot: the invocation running in it
    invocations,                \* tool invocations started so far
    lastReturn,                 \* the invocation whose handler returned in the
                                \* step just taken, or IdleCall
    lastToken, cacheLife, cacheIssuedAt, cacheStoredAt,
                                \* history: the token, lifetime, issue time and
                                \* arrival time of the last 2xx token answer
    lastFailClean,              \* history: see OAuthFails
    process                     \* the server process: its phase, the tools it
                                \* registered, whether main() warned, its exit

vars == <<apiKey, appId, appSecret, docs, inbox, accessToken, tokenExpiry, now,
          calls, invocations, lastReturn, lastToken, cacheLife, cacheIssuedAt,
          cacheStoredAt,
          lastFailClean, process>>

env == <<apiKey, appId, appSecret, docs, inbox, process>>
cache == <<accessToken, tokenExpiry>>
cacheHistory == <<lastToken, cacheLife, cacheIssuedAt, cacheStoredAt>>

\* ------------------------------------------------------------ JS helpers
\* Mutant of Truthy: only undefined and null count as absent.
TruthyEmptyString(v) == v # Undefined /\ v # Null

\* Truthiness of a string | undefined | null value.
Truthy(v) == v # Undefined /\ v # Null /\ v # ""

\* TRUE iff sub occurs in s.
Contains(s, sub) ==
    \E i \in 1..(Len(s) - Len(sub) + 1) : SubSeq(s, i, i + Len(sub) - 1) = sub

\* TRUE iff s ends with suffix.
EndsWith(s, suffix) ==
    /\ Len(s) >= Len(suffix)
    /\ SubSeq(s, Len(s) - Len(suffix) + 1, Len(s)) = suffix

\* ------------------------------------------------------------ JS values
\* An argument of a client method: type is its typeof (with "null" for null and
\* "json" for an array or nested object, kept as its JSON text), val is
\* String(value), members are the <<key, value>> entries of an object in
\* insertion order.
JSUndefined == [type |-> "undefined", val |-> "undefined", members |-> << >>]
JSNull == [type |-> "null", val |-> "null", members |-> << >>]
JSString(s) == [type |-> "string", val |-> s, members |-> << >>]
JSNumber(n) == [type |-> "number", val |-> ToString(n), members |-> << >>]
JSBoolean(b) == [type |-> "boolean", val |-> IF b THEN "true" ELSE "false",
                 members |-> << >>]
JSJson(text) == [type |-> "json", val |-> text, members |-> << >>]
Object(entries) == [type |-> "object", val |-> "[object Object]",
                    members |-> entries]

\* String(v) and `${v}`.
String(v) == v.val

\* Mutant of ToBoolean: only undefined and null are falsy.
ToBooleanNullish(v) == v.type \notin {"undefined", "null"}

\* The truthiness test of `if (v)`.
ToBoolean(v) ==
    CASE v.type \in {"undefined", "null"} -> FALSE
      [] v.type = "string" -> v.val # ""
      [] v.type = "number" -> v.val # "0"
      [] v.type = "boolean" -> v.val = "true"
      [] OTHER -> TRUE

\* Mutant of DefaultArg: the default replaces every falsy value, as in
\* `v || default`.
DefaultArgFalsy(v, default) == IF ToBoolean(v) THEN v ELSE default

\* A parameter declared `(v = default)`.
DefaultArg(v, default) == IF v = JSUndefined THEN default ELSE v

\* obj?.key
Get(obj, key) ==
    IF \E i \in 1..Len(obj.members) : obj.members[i][1] = key
    THEN LET i == CHOOSE j \in 1..Len(obj.members) : obj.members[j][1] = key
         IN obj.members[i][2]
    ELSE JSUndefined

RECURSIVE DropKeys(_, _)
DropKeys(entries, keys) ==
    IF entries = << >> THEN << >>
    ELSE (IF entries[1][1] \in keys THEN << >> ELSE <<entries[1]>>)
         \o DropKeys(Tail(entries), keys)

\* Mutant of Rest: the destructured keys stay in the rest object.
RestKeepsKeys(obj, keys) == obj

\* `({ k1, k2, ...rest }) =>`: the rest of a destructured object.
Rest(obj, keys) == Object(DropKeys(obj.members, keys))

RECURSIVE TakeKeys(_, _)
TakeKeys(obj, keys) ==
    IF keys = << >> THEN << >>
    ELSE <<<<keys[1], Get(obj, keys[1])>>>> \o TakeKeys(obj, Tail(keys))

\* `{ k1, k2 }` built from the destructured values, absent ones included as
\* undefined.
Pick(obj, keys) == Object(TakeKeys(obj, keys))

\* JSON.stringify of a value that is not an object.
StringifyValue(v) ==
    CASE v.type = "string" -> "\"" \o v.val \o "\""
      [] OTHER -> v.val

RECURSIVE StringifyEntries(_)
StringifyEntries(entries) ==
    IF entries = << >> THEN ""
    ELSE IF entries[1][2].type = "undefined" THEN StringifyEntries(Tail(entries))
    ELSE LET rest == StringifyEntries(Tail(entries))
         IN "\"" \o entries[1][1] \o "\":" \o StringifyValue(entries[1][2])
            \o (IF rest = "" THEN "" ELSE "," \o rest)

\* JSON.stringify(body): members whose value is undefined are left out.
Stringify(obj) == "{" \o StringifyEntries(obj.members) \o "}"

\* ------------------------------------------------------------ requests
DocsBaseUrl == "https://docsapi.helpscout.net/v1"
InboxBaseUrl == "https://api.helpscout.net/v2"

\* Buffer.from(s).toString('base64'), on the key strings of EnvValues.
Base64(s) ==
    CASE s = "secret:X" -> "c2VjcmV0Olg="
      [] s = "secret" -> "c2VjcmV0"
      [] s = ":X" -> "Olg="

\* The serialisation of a query value by URLSearchParams, on the strings used
\* here: a space becomes "+", letters and digits stay.
UrlEncode(s) ==
    CASE s = "a b" -> "a+b"
      [] OTHER -> s

\* url.searchParams.set(key, value) followed by url.toString(), for a key the
\* URL does not have yet.
SearchParamsSet(url, key, value) ==
    url \o (IF Contains(url, "?") THEN "&" ELSE "?") \o key \o "="
        \o UrlEncode(String(value))

\* Mutant of QueryValueKept: the empty string is kept.
QueryValueKeptEmpty(value) == value.type \notin {"undefined", "null"}

\* The filter of both request() methods on the entries of queryParams.
QueryValueKept(value) ==
    /\ value # JSUndefined
    /\ value # JSNull
    /\ value # JSString("")

RECURSIVE WithQuery(_, _)
WithQuery(url, entries) ==
    IF entries = << >> THEN url
    ELSE WithQuery(IF QueryValueKept(entries[1][2])
                   THEN SearchParamsSet(url, entries[1][1], entries[1][2])
                   ELSE url,
                   Tail(entries))

\* The request handed to fetch(): path is the path argument of request(), url
\* is url.toString(), contentType and body are Undefined when not set.
NoRequest == [method |-> "", path |-> "", url |-> "", authorization |-> "",
              contentType |-> Undefined, body |-> Undefined]

\* Mutant of getAuthHeader: the key alone is encoded, without ":X".
getAuthHeaderKeyOnly(key) == "Basic " \o Base64(key)

\* DocsClient.getAuthHeader
getAuthHeader(key) == "Basic " \o Base64(key \o ":X")

\* `Bearer ${token}`
BearerHeader(token) == "Bearer " \o token

\* The methods for which request() sends a body.
BodyMethods(family) ==
    IF family = "inbox" THEN {"POST", "PUT", "PATCH"} ELSE {"POST", "PUT"}

\* Both request() methods up to fetch(): call is the <<method, path, body,
\* queryParams>> of the client method, authorization the header of the client.
BuildRequest(family, call, authorization) ==
    LET base == IF family = "inbox" THEN InboxBaseUrl ELSE DocsBaseUrl
        sendsBody == ToBoolean(call.body) /\ call.method \in BodyMethods(family)
    IN [method |-> call.method,
        path |-> call.path,
        url |-> IF ToBoolean(call.query)
                THEN WithQuery(base \o call.path, call.query.members)
                ELSE base \o call.path,
        authorization |-> authorization,
        contentType |-> IF sendsBody THEN "application/json" ELSE Undefined,
        body |-> IF sendsBody THEN Stringify(call.body) ELSE Undefined]

\* this.request(method, path, body, queryParams)
Request(method, path, body, query) ==
    [method |-> method, path |-> path, body |-> body, query |-> query]

\* The i-th argument of a call, undefined when it was not passed.
Arg(args, i) == IF i <= Len(args) THEN args[i] ELSE JSUndefined

\* `if (params?.key) query.key = params.key`, or String(params.key) where
\* wrap says so, for the keys of a list method in the order of the code.
RECURSIVE QueryEntries(_, _)
QueryEntries(params, keys) ==
    IF keys = << >> THEN << >>
    ELSE LET key == keys[1][1]
             value == Get(params, key)
         IN (IF ToBoolean(value)
             THEN <<<<key, IF keys[1][2] = "String"
                           THEN JSString(String(value)) ELSE value>>>>
             ELSE << >>)
            \o QueryEntries(params, Tail(keys))

Query(params, keys) == Object(QueryEntries(params, keys))

PageOnly == << <<"page", "String">> >>

\* The optional filters of the list methods, in the order in which the code
\* tests them; "String" marks those copied as String(value).
FilterKeys ==
    [listCollections |-> << <<"page", "String">>, <<"siteId", "">>,
                            <<"visibility", "">>, <<"sort", "">>,
                            <<"order", "">> >>,
     listCategories |-> << <<"page", "String">>, <<"sort", "">>,
                           <<"order", "">> >>,
     listArticles |-> << <<"page", "String">>, <<"status", "">>,
                         <<"sort", "">>, <<"order", "">>,
                         <<"pageSize", "String">> >>,
     searchArticles |-> << <<"collectionId", "">>, <<"siteId", "">>,
                           <<"status", "">>, <<"visibility", "">>,
                           <<"page", "String">> >>,
     listRelatedArticles |-> PageOnly,
     listRevisions |-> PageOnly,
     listRedirects |-> PageOnly,
     listConversations |-> << <<"mailbox", "String">>, <<"status", "">>,
                              <<"tag", "">>, <<"assigned_to", "String">>,
                              <<"modifiedSince", "">>, <<"sortField", "">>,
                              <<"sortOrder", "">>, <<"page", "String">>,
                              <<"query", "">> >>,
     listCustomers |-> << <<"firstName", "">>, <<"lastName", "">>,
                          <<"email", "">>, <<"modifiedSince", "">>,
                          <<"sortField", "">>, <<"sortOrder", "">>,
                          <<"page", "String">>, <<"query", "">> >>]

\* Mutant of ReloadSuffix: writes do not ask for the updated resource.
ReloadSuffixNone == ""

\* The suffix of the paths of the Docs create and update methods.
ReloadSuffix == "?reload=true"

\* Mutant of ArticlesBasePath: the path is chosen from the shape of the id.
ArticlesBasePathFromId(parentId, parentType) ==
    IF String(parentId) = "X"
    THEN "/collections/" \o String(parentId) \o "/articles"
    ELSE "/categories/" \o String(parentId) \o "/articles"

\* basePath of DocsClient.listArticles
ArticlesBasePath(parentId, parentType) ==
    IF parentType = JSString("collection")
    THEN "/collections/" \o String(parentId) \o "/articles"
    ELSE "/categories/" \o String(parentId) \o "/articles"

\* The methods of DocsClient: the call of this.request each one makes.
DocsCall(name, args) ==
    LET a1 == Arg(args, 1)
        a2 == Arg(args, 2)
        a3 == Arg(args, 3)
        id == String(a1)
        U == JSUndefined
    IN CASE name = "listSites" ->
              Request("GET", "/sites", U,
                  Object(<< <<"page", JSString(String(DefaultArg(a1, JSNumber(1))))>> >>))
         [] name = "getSite" -> Request("GET", "/sites/" \o id, U, U)
         [] name = "createSite" -> Request("POST", "/sites" \o ReloadSuffix, a1, U)
         [] name = "updateSite" ->
              Request("PUT", "/sites/" \o id \o ReloadSuffix, a2, U)
         [] name = "deleteSite" -> Request("DELETE", "/sites/" \o id, U, U)
         [] name = "listCollections" ->
              Request("GET", "/collections", U,
                  Query(a1, FilterKeys.listCollections))
         [] name = "getCollection" -> Request("GET", "/collections/" \o id, U, U)
         [] name = "createCollection" ->
              Request("POST", "/collections" \o ReloadSuffix, a1, U)
         [] name = "updateCollection" ->
              Request("PUT", "/collections/" \o id \o ReloadSuffix, a2, U)
         [] name = "deleteCollection" ->
              Request("DELETE", "/collections/" \o id, U, U)
         [] name = "listCategories" ->
              Request("GET", "/collections/" \o id \o "/categories", U,
                  Query(a2, FilterKeys.listCategories))
         [] name = "getCategory" -> Request("GET", "/categories/" \o id, U, U)
         [] name = "createCategory" ->
              Request("POST", "/categories" \o ReloadSuffix, a1, U)
         [] name = "updateCategory" ->
              Request("PUT", "/categories/" \o id \o ReloadSuffix, a2, U)
         [] name = "updateCategoryOrder" ->
              Request("PUT", "/collections/" \o id \o "/categories",
                  Object(<< <<"categories", a2>> >>), U)
         [] name = "deleteCategory" ->
              Request("DELETE", "/categories/" \o id, U, U)
         [] name = "listArticles" ->
              Request("GET", ArticlesBasePath(a1, a2), U,
                  Query(a3, FilterKeys.listArticles))
         [] name = "searchArticles" ->
              Request("GET", "/search/articles", U,
                  Object(<< <<"query", Get(a1, "query")>> >>
                         \o QueryEntries(a1, FilterKeys.searchArticles)))
         [] name = "getArticle" ->
              Request("GET", "/articles/" \o id, U,
                  Object(IF ToBoolean(DefaultArg(a2, JSBoolean(FALSE)))
                         THEN << <<"draft", JSString("true")>> >> ELSE << >>))
         [] name = "createArticle" ->
              Request("POST", "/articles" \o ReloadSuffix, a1, U)
         [] name = "updateArticle" ->
              Request("PUT", "/articles/" \o id \o ReloadSuffix, a2, U)
         [] name = "deleteArticle" -> Request("DELETE", "/articles/" \o id, U, U)
         [] name = "listRelatedArticles" ->
              Request("GET", "/articles/" \o id \o "/related", U,
                  Query(a2, FilterKeys.listRelatedArticles))
         [] name = "listRevisions" ->
              Request("GET", "/articles/" \o id \o "/revisions", U,
                  Query(a2, FilterKeys.listRevisions))
         [] name = "getRevision" -> Request("GET", "/revisions/" \o id, U, U)
         [] name = "saveArticleDraft" ->
              Request("PUT", "/articles/" \o id \o "/drafts",
                  Object(<< <<"text", a2>> >>), U)
         [] name = "deleteArticleDraft" ->
              Request("DELETE", "/articles/" \o id \o "/drafts", U, U)
         [] name = "updateViewCount" ->
              Request("PUT", "/articles/" \o id \o "/views",
                  Object(<< <<"count", a2>> >>), U)
         [] name = "listRedirects" ->
              Request("GET", "/redirects/site/" \o id, U, Query(a2, FilterKeys.listRedirects))
         [] name = "getRedirect" -> Request("GET", "/redirects/" \o id, U, U)
         [] name = "findRedirect" ->
              Request("GET", "/redirects/site/" \o id, U,
                  Object(<< <<"url", a2>> >>))
         [] name = "createRedirect" ->
              Request("POST", "/redirects" \o ReloadSuffix, a1, U)
         [] name = "updateRedirect" ->
              Request("PUT", "/redirects/" \o id \o ReloadSuffix, a2, U)
         [] name = "deleteRedirect" ->
              Request("DELETE", "/redirects/" \o id, U, U)

\* The methods of InboxClient: the call of this.request each one makes.
InboxCall(name, args) ==
    LET a1 == Arg(args, 1)
        a2 == Arg(args, 2)
        a3 == Arg(args, 3)
        a4 == Arg(args, 4)
        id == String(a1)
        U == JSUndefined
        PageArg == Object(IF ToBoolean(a1)
                          THEN << <<"page", JSString(String(a1))>> >> ELSE << >>)
    IN CASE name = "listConversations" ->
              Request("GET", "/conversations", U,
                  Query(a1, FilterKeys.listConversations))
         [] name = "getConversation" ->
              Request("GET", "/conversations/" \o id, U,
                  Object(IF ToBoolean(a2) THEN << <<"embed", a2>> >> ELSE << >>))
         [] name = "createConversation" -> Request("POST", "/conversations", a1, U)
         [] name = "updateConversation" ->
              Request("PATCH", "/conversations/" \o id,
                  Object(<< <<"op", a2>>, <<"path", a3>>, <<"value", a4>> >>), U)
         [] name = "deleteConversation" ->
              Request("DELETE", "/conversations/" \o id, U, U)
         [] name = "listThreads" ->
              Request("GET", "/conversations/" \o id \o "/threads", U, U)
         [] name = "createReplyThread" ->
              Request("POST", "/conversations/" \o id \o "/reply", a2, U)
         [] name = "createNoteThread" ->
              Request("POST", "/conversations/" \o id \o "/notes", a2, U)
         [] name = "createPhoneThread" ->
              Request("POST", "/conversations/" \o id \o "/phones", a2, U)
         [] name = "listCustomers" ->
              Request("GET", "/customers", U,
                  Query(a1, FilterKeys.listCustomers))
         [] name = "getCustomer" -> Request("GET", "/customers/" \o id, U, U)
         [] name = "createCustomer" -> Request("POST", "/customers", a1, U)
         [] name = "updateCustomer" ->
              Request("PUT", "/customers/" \o id, a2, U)
         [] name = "listMailboxes" -> Request("GET", "/mailboxes", U, PageArg)
         [] name = "getMailbox" -> Request("GET", "/mailboxes/" \o id, U, U)
         [] name = "listUsers" -> Request("GET", "/users", U, PageArg)
         [] name = "getUser" -> Request("GET", "/users/" \o id, U, U)
         [] name = "getResourceOwner" -> Request("GET", "/users/me", U, U)
         [] name = "listTags" -> Request("GET", "/tags", U, PageArg)

\* A call of a client method.
Op(name, args) == [name |-> name, args |-> args]
NoOp == Op("", << >>)

\* ------------------------------------------------------------ handlers
\* What each handler does with its validated params: `bare` handlers pass the
\* whole object, `byId` handlers the value of one key, `idAndRest` handlers the
\* value of one key and the rest of the object.
BareTools ==
    [docs_create_site |-> "createSite",
     docs_list_collections |-> "listCollections",
     docs_create_collection |-> "createCollection",
     docs_create_category |-> "createCategory",
     docs_search_articles |-> "searchArticles",
     docs_create_article |-> "createArticle",
     docs_create_redirect |-> "createRedirect",
     inbox_list_conversations |-> "listConversations",
     inbox_create_conversation |-> "createConversation",
     inbox_list_customers |-> "listCustomers",
     inbox_create_customer |-> "createCustomer"]

ByIdTools ==
    [docs_list_sites |-> <<"listSites", "page">>,
     docs_get_site |-> <<"getSite", "siteId">>,
     docs_delete_site |-> <<"deleteSite", "siteId">>,
     docs_get_collection |-> <<"getCollection", "collectionId">>,
     docs_delete_collection |-> <<"deleteCollection", "collectionId">>,
     docs_get_category |-> <<"getCategory", "categoryId">>,
     docs_delete_category |-> <<"deleteCategory", "categoryId">>,
     docs_delete_article |-> <<"deleteArticle", "articleId">>,
     docs_get_revision |-> <<"getRevision", "revisionId">>,
     docs_delete_draft |-> <<"deleteArticleDraft", "articleId">>,
     docs_get_redirect |-> <<"getRedirect", "redirectId">>,
     docs_delete_redirect |-> <<"deleteRedirect", "redirectId">>,
     inbox_delete_conversation |-> <<"deleteConversation", "conversationId">>,
     inbox_list_threads |-> <<"listThreads", "conversationId">>,
     inbox_get_customer |-> <<"getCustomer", "customerId">>,
     inbox_list_mailboxes |-> <<"listMailboxes", "page">>,
     inbox_get_mailbox |-> <<"getMailbox", "mailboxId">>,
     inbox_list_users |-> <<"listUsers", "page">>,
     inbox_get_user |-> <<"getUser", "userId">>,
     inbox_list_tags |-> <<"listTags", "page">>]

IdAndRestTools ==
    [docs_update_site |-> <<"updateSite", "siteId">>,
     docs_update_collection |-> <<"updateCollection", "collectionId">>,
     docs_list_categories |-> <<"listCategories", "collectionId">>,
     docs_update_category |-> <<"updateCategory", "categoryId">>,
     docs_update_article |-> <<"updateArticle", "articleId">>,
     docs_update_redirect |-> <<"updateRedirect", "redirectId">>,
     inbox_create_reply |-> <<"createReplyThread", "conversationId">>]

\* The client call a handler makes for its params.
HandlerOp(tool, params) ==
    CASE tool \in DOMAIN BareTools -> Op(BareTools[tool], <<params>>)
      [] tool \in DOMAIN ByIdTools ->
           Op(ByIdTools[tool][1], <<Get(params, ByIdTools[tool][2])>>)
      [] tool \in DOMAIN IdAndRestTools ->
           Op(IdAndRestTools[tool][1],
              <<Get(params, IdAndRestTools[tool][2]),
                Rest(params, {IdAndRestTools[tool][2]})>>)
      [] tool = "docs_update_category_order" ->
           Op("updateCategoryOrder",
              <<Get(params, "collectionId"), Get(params, "categories")>>)
      [] tool = "docs_list_articles" ->
           Op("listArticles",
              <<Get(params, "parentId"), Get(params, "parentType"),
                Rest(params, {"parentId", "parentType"})>>)
      [] tool = "docs_get_article" ->
           Op("getArticle",
              <<Get(params, "articleIdOrNumber"), Get(params, "draft")>>)
      [] tool = "docs_list_related_articles" ->
           Op("listRelatedArticles",
              <<Get(params, "articleId"), Pick(params, <<"page">>)>>)
      [] tool = "docs_list_revisions" ->
           Op("listRevisions",
              <<Get(params, "articleId"), Pick(params, <<"page">>)>>)
      [] tool = "docs_save_draft" ->
           Op("saveArticleDraft",
              <<Get(params, "articleId"), Get(params, "text")>>)
      [] tool = "docs_list_redirects" ->
           Op("listRedirects",
              <<Get(params, "siteId"), Pick(params, <<"page">>)>>)
      [] tool = "inbox_get_conversation" ->
           Op("getConversation",
              <<Get(params, "conversationId"), Get(params, "embed")>>)
      [] tool = "inbox_create_note" ->
           Op("createNoteThread",
              <<Get(params, "conversationId"), Pick(params, <<"text">>)>>)
      [] tool = "inbox_get_me" -> Op("getResourceOwner", << >>)

\* An invocation of a handler: the tool, its params, whether the handler is an
\* acknowledging one, and the client call it makes.
Handler(tool, params) ==
    [tool |-> tool, params |-> params, ack |-> tool \in AckTools,
     op |-> HandlerOp(tool, params)]

\* The client methods wrapped by the acknowledging handlers.
AckMethods == {HandlerOp(tool, Object(<< >>)).name : tool \in AckTools}

\* A client method called with arguments of any type, as its handler calls it.
Direct(op) ==
    [tool |-> "", params |-> JSUndefined, ack |-> op.name \in AckMethods,
     op |-> op]

CreateCollectionParams ==
    Object(<< <<"siteId", JSString("abc123")>>, <<"name", JSString("FAQ")>> >>)
CreateReplyParams ==
    Object(<< <<"conversationId", JSNumber(42)>>, <<"text", JSString("hello")>> >>)

\* The invocations of each family that overlap in Spec: the two scenario
\* invocations.
DocsHandlers == {Handler("docs_create_collection", CreateCollectionParams)}
InboxHandlers == {Handler("inbox_create_reply", CreateReplyParams)}

\* One acknowledging handler of each family.
DocsAckHandlers ==
    {Handler("docs_delete_site", Object(<< <<"siteId", JSString("abc123")>> >>))}
InboxAckHandlers ==
    {Handler("inbox_delete_conversation",
             Object(<< <<"conversationId", JSNumber(42)>> >>))}

\* ---------------------------------------------------- arguments of SpecOps
\* Values passed for an optional filter.
OptionalValues ==
    {JSUndefined, JSNull, JSString(""), JSString("v"), JSString("a b"),
     JSNumber(0), JSNumber(2)}

Ids == {JSString("X"), JSNumber(42)}

Bodies ==
    {Object(<< >>), CreateCollectionParams,
     Object(<< <<"text", JSString("hello")>>, <<"draft", JSUndefined>>,
               <<"customer", JSJson("{\"email\":\"a@b.c\"}")>> >>)}

\* The objects over the filter keys in which every key has the same value, or
\* every key but one has the value "v"; and no object at all.
ParamObjects(keys) ==
    LET n == Len(keys)
    IN {JSUndefined, Object(<< >>)}
       \cup {Object([i \in 1..n |-> <<keys[i][1], v>>]) : v \in OptionalValues}
       \cup {Object([i \in 1..n |->
                        <<keys[i][1], IF i = k THEN v ELSE JSString("v")>>]) :
                k \in 1..n, v \in OptionalValues}

\* The calls of the DocsClient methods.
DocsOps ==
    {Op("listSites", << >>)}
    \cup {Op("listSites", <<v>>) : v \in OptionalValues}
    \cup {Op(name, <<id>>) :
            name \in {"getSite", "deleteSite", "getCollection",
                      "deleteCollection", "getCategory", "deleteCategory",
                      "deleteArticle", "getRevision", "deleteArticleDraft",
                      "getRedirect", "deleteRedirect"},
            id \in Ids}
    \cup {Op(name, <<data>>) :
            name \in {"createSite", "createCollection", "createCategory",
                      "createArticle", "createRedirect"},
            data \in Bodies}
    \cup {Op(name, <<id, data>>) :
            name \in {"updateSite", "updateCollection", "updateCategory",
                      "updateArticle", "updateRedirect"},
            id \in Ids, data \in Bodies}
    \cup {Op("listCollections", <<p>>) : p \in ParamObjects(FilterKeys.listCollections)}
    \cup UNION {{Op(name, <<id, p>>) :
                   id \in Ids, p \in ParamObjects(FilterKeys[name])} :
                name \in {"listCategories", "listRelatedArticles",
                          "listRevisions", "listRedirects"}}
    \cup {Op("listArticles", <<id, JSString(type), p>>) :
            id \in Ids, type \in {"collection", "category"},
            p \in ParamObjects(FilterKeys.listArticles)}
    \cup {Op("searchArticles",
             <<Object(<< <<"query", q>> >> \o p.members)>>) :
            q \in {JSString("q"), JSString("")},
            p \in ParamObjects(FilterKeys.searchArticles)}
    \cup {Op("getArticle", <<id>>) : id \in Ids}
    \cup {Op("getArticle", <<id, draft>>) :
            id \in Ids,
            draft \in {JSUndefined, JSNull, JSString(""), JSBoolean(FALSE),
                       JSBoolean(TRUE)}}
    \cup {Op("updateCategoryOrder",
             <<id, JSJson("[{\"id\":\"c1\",\"order\":1}]")>>) : id \in Ids}
    \cup {Op("saveArticleDraft", <<id, JSString("hello")>>) : id \in Ids}
    \cup {Op("updateViewCount", <<id, JSNumber(2)>>) : id \in Ids}
    \cup {Op("findRedirect", <<id, url>>) :
            id \in Ids, url \in OptionalValues}

\* The calls of the InboxClient methods.
InboxOps ==
    {Op(name, << >>) :
        name \in {"getResourceOwner", "listMailboxes", "listUsers", "listTags"}}
    \cup {Op(name, <<v>>) :
            name \in {"listMailboxes", "listUsers", "listTags"},
            v \in OptionalValues}
    \cup {Op(name, <<id>>) :
            name \in {"deleteConversation", "listThreads", "getCustomer",
                      "getMailbox", "getUser", "getConversation"},
            id \in Ids}
    \cup {Op("getConversation", <<id, embed>>) :
            id \in Ids,
            embed \in {JSUndefined, JSNull, JSString(""), JSString("threads")}}
    \cup {Op(name, <<data>>) :
            name \in {"createConversation", "createCustomer"}, data \in Bodies}
    \cup {Op(name, <<id, data>>) :
            name \in {"createReplyThread", "createNoteThread",
                      "createPhoneThread", "updateCustomer"},
            id \in Ids, data \in Bodies}
    \cup {Op("updateConversation",
             <<id, JSString("replace"), JSString("/subject"), value>>) :
            id \in Ids, value \in {JSString("v"), JSUndefined}}
    \cup UNION {{Op(name, <<p>>) : p \in ParamObjects(FilterKeys[name])} :
                name \in {"listConversations", "listCustomers"}}

\* The invocations of SpecOps: every client method with arguments of any type,
\* and the handlers of the two end-to-end scenarios.
AllDocsHandlers ==
    {Direct(op) : op \in DocsOps} \cup DocsHandlers \cup DocsAckHandlers
    \cup {Handler("docs_list_articles",
                  Object(<< <<"parentId", id>>, <<"parentType", JSString(type)>> >>
                         \o p.members)) :
            id \in {JSString("X"), JSString("Y")},
            type \in {"collection", "category"},
            p \in {Object(<< >>), Object(<< <<"page", JSNumber(2)>> >>)}}
    \cup {Handler("docs_list_sites", p) :
            p \in {Object(<< >>), Object(<< <<"page", JSNumber(0)>> >>),
                   Object(<< <<"page", JSNumber(2)>> >>)}}
AllInboxHandlers ==
    {Direct(op) : op \in InboxOps} \cup InboxHandlers \cup InboxAckHandlers

\* ------------------------------------------------------------ HTTP values
NoData == [access_token |-> Null, expires_in |-> 0]
NoResponse == [status |-> -1, contentLength |-> Null, text |-> "",
               data |-> NoData, issuedAt |-> 0]
ResponseOk(r) == r.status >= 200 /\ r.status <= 299

\* The clock readings from sent to t.
Instants(sent, t) == {sent + k * TickMs : k \in 0..((t - sent) \div TickMs)}

\* Answers of the token endpoint to a request sent at `sent` and settled at t:
\* the server issued the token at some instant in between.
TokenResponses(sent, t) ==
    {[status |-> 200, contentLength |-> Null, text |-> "",
      data |-> [access_token |-> tok, expires_in |-> life], issuedAt |-> at] :
        tok \in Tokens, life \in Lifetimes, at \in Instants(sent, t)}
    \cup {[NoResponse EXCEPT !.status = 401, !.text = "invalid_client"],
          [NoResponse EXCEPT !.status = 200, !.text = "<html>"]}

\* response.json() of a token answer succeeds: the body is the JSON of
\* { access_token: string; expires_in: number }.
TokenBodyParses(r) == r.data # NoData

\* Answers of the API endpoints.
ApiResponses ==
    {[NoResponse EXCEPT !.status = 200, !.text = "{\"id\":1}"],
     [NoResponse EXCEPT !.status = 200, !.text = ""],
     [NoResponse EXCEPT !.status = 200, !.contentLength = "0"],
     [NoResponse EXCEPT !.status = 200, !.text = "<html>"],
     [NoResponse EXCEPT !.status = 204],
     [NoResponse EXCEPT !.status = 401, !.text = "Unauthorized"],
     [NoResponse EXCEPT !.status = 404, !.text = "Not Found"],
     [NoResponse EXCEPT !.status = 500, !.text = "Internal Server Error"]}

\* ------------------------------------------------------------------ JSON
\* A parsed JSON object is the sequence of its <<key, literal>> members.
EmptyObject == << >>

\* Mutant of JSONParse: a text that is not JSON yields the empty object.
JSONParseLenient(text) ==
    IF text = "{\"id\":1}"
    THEN [ok |-> TRUE, value |-> << <<"id", "1">> >>, message |-> ""]
    ELSE [ok |-> TRUE, value |-> EmptyObject, message |-> ""]

\* JSON.parse on the body texts of ApiResponses: the one well-formed text
\* parses to its object, any other text throws a SyntaxError.
JSONParse(text) ==
    IF text = "{\"id\":1}"
    THEN [ok |-> TRUE, value |-> << <<"id", "1">> >>, message |-> ""]
    ELSE [ok |-> FALSE, value |-> EmptyObject,
          message |-> IF text = "" THEN "Unexpected end of JSON input"
                      ELSE "Unexpected token < in JSON at position 0"]

RECURSIVE Members(_)
Members(obj) ==
    IF obj = << >> THEN ""
    ELSE "  \"" \o obj[1][1] \o "\": " \o obj[1][2]
         \o (IF Len(obj) = 1 THEN "\n" ELSE ",\n" \o Members(Tail(obj)))

\* JSON.stringify(data, null, 2)
fmt(data) == IF data = EmptyObject THEN "{}" ELSE "{\n" \o Members(data) \o "}"

\* ------------------------------------------------------------- envelopes
NoResult == [isError |-> FALSE, text |-> ""]

textResult(data) == [isError |-> FALSE, text |-> fmt(data)]

\* Mutant of errResult: the message is returned without the "Error: " prefix.
errResultBare(message) == [isError |-> TRUE, text |-> message]

\* errResult of a string or of an Error with that message.
errResult(message) == [isError |-> TRUE, text |-> "Error: " \o message]

DocsNotConfigured == "HELPSCOUT_API_KEY not configured"
InboxNotConfigured == "HELPSCOUT_APP_ID and HELPSCOUT_APP_SECRET not configured"

\* What an acknowledging handler returns; the resource id in the message is
\* not modelled.
AckPayload == << <<"success", "true">>, <<"message", "\"deleted\"">> >>

FetchFailed == "fetch failed"   \* message of the TypeError of a rejected fetch

\* Mutant of OAuthErrorMessage: the response body is left out of the message.
OAuthErrorMessageNoBody(status, errorText) ==
    "Help Scout OAuth error " \o ToString(status)

OAuthErrorMessage(status, errorText) ==
    "Help Scout OAuth error " \o ToString(status) \o ": " \o errorText

\* Mutant of ApiErrorMessage: the status code is left out of the message.
ApiErrorMessageNoStatus(family, status, errorText) ==
    (IF family = "inbox" THEN "Help Scout Inbox API error: "
                         ELSE "Help Scout Docs API error: ") \o errorText

ApiErrorMessage(family, status, errorText) ==
    (IF family = "inbox" THEN "Help Scout Inbox API error "
                         ELSE "Help Scout Docs API error ")
    \o ToString(status) \o ": " \o errorText

\* ---------------------------------------------------------- construction
DocsClient(key) == IF Truthy(key) THEN "DocsClient" ELSE Null

\* Mutant of InboxClient: one of the two credentials is enough.
InboxClientEither(id, secret) ==
    IF Truthy(id) \/ Truthy(secret) THEN "InboxClient" ELSE Null

InboxClient(id, secret) ==
    IF Truthy(id) /\ Truthy(secret) THEN "InboxClient" ELSE Null

\* ------------------------------------------------------------ token cache
\* Mutant of CacheValid: the comparison with the expiry is the wrong way round.
CacheValidInverted(token, expiry, t) == Truthy(token) /\ t > expiry

\* Mutant of CacheValid: a token is still reused at the instant it expires.
CacheValidInclusive(token, expiry, t) == Truthy(token) /\ t <= expiry

\* The reuse test of getAccessToken.
CacheValid(token, expiry, t) == Truthy(token) /\ t < expiry

\* Mutant of ComputeExpiry: the 60 s margin is not subtracted.
ComputeExpiryNoMargin(t, expires_in) == t + expires_in * MsPerSec

\* Mutant of ComputeExpiry: once a token is cached its expiry is kept, so a
\* later token is paired with the expiry of an earlier answer.
ComputeExpiryKeepsFirst(t, expires_in) ==
    IF accessToken # Null THEN tokenExpiry
    ELSE t + (expires_in - MarginSec) * MsPerSec

\* The expiry stored for a token answered with expires_in, at time t.
ComputeExpiry(t, expires_in) == t + (expires_in - MarginSec) * MsPerSec

\* Mutant of StoredToken: a token that is already cached is kept.
StoredTokenKeepFirst(cached, fresh) == IF Truthy(cached) THEN cached ELSE fresh

\* The token stored when the exchange answered `fresh` and `cached` is held.
StoredToken(cached, fresh) == fresh

\* ---------------------------------------------------------------- startup
\* Mutant of RegisteredTools: only the tools of a configured family are
\* registered.
RegisteredToolsConfigured(d, i) ==
    (IF d # Null THEN DocsTools ELSE {}) \cup (IF i # Null THEN InboxTools ELSE {})

\* The server.tool(...) statements run when the module is loaded, one per tool
\* and none of them under a condition on the clients d and i.
RegisteredTools(d, i) == Tools

\* `capabilities` of main()
Capabilities(d, i) ==
    (IF d # Null THEN {"Docs API"} ELSE {}) \cup (IF i # Null THEN {"Inbox API"} ELSE {})

\* The process when the module is loaded and main() is awaiting
\* server.connect(transport).
Loaded(d, i) ==
    [phase |-> "starting", tools |-> RegisteredTools(d, i), warned |-> FALSE,
     fatal |-> FALSE, exitCode |-> Null]

\* The process when main() has completed.
Started(d, i) ==
    [Loaded(d, i) EXCEPT !.phase = "running", !.warned = Capabilities(d, i) = {}]

\* The server dispatches an invocation to a tool it registered; a direct call
\* of a client method has no tool.
Offered(h) == h.tool = "" \/ h.tool \in process.tools

\* ------------------------------------------------------------ invocations
\* pc: where the invocation waits.  "tokenFetch": getAccessToken, for the token
\* endpoint; "gotToken": request(), for getAccessToken; "apiFetch": request(),
\* for the API.  tokReqs, apiReqs: the requests it has issued.  cause, resp:
\* why its handler returned, and the response that made it.  tool, params, op:
\* the handler invoked and the client call it makes; req: the API request it
\* has handed to fetch().
IdleCall == [pc |-> "idle", family |-> "none", ack |-> FALSE,
             tool |-> "", params |-> JSUndefined, op |-> NoOp, req |-> NoRequest,
             sentAt |-> 0, token |-> Null, tokReqs |-> 0, apiReqs |-> 0,
             sawStore |-> FALSE, afterFail |-> FALSE,
             cause |-> "none", resp |-> NoResponse, result |-> NoResult]

InFlight(c) == calls[c].pc # "idle"

\* The handler of call returns envelope: the invocation is over.
Returned(call, cause, r, envelope) ==
    [call EXCEPT !.pc = "returned", !.cause = cause, !.resp = r,
                 !.result = envelope, !.sentAt = 0, !.token = Null,
                 !.sawStore = FALSE]

Init ==
    /\ apiKey \in EnvValues
    /\ appId \in EnvValues
    /\ appSecret \in EnvValues
    /\ docs = DocsClient(apiKey)
    /\ inbox = InboxClient(appId, appSecret)
    /\ accessToken = Null
    /\ tokenExpiry = 0
    /\ now = TickMs
    /\ calls = [c \in Slots |-> IdleCall]
    /\ invocations = 0
    /\ lastReturn = IdleCall
    /\ lastToken = Null
    /\ cacheLife = 0
    /\ cacheIssuedAt = 0
    /\ cacheStoredAt = 0
    /\ lastFailClean = FALSE
    /\ process = Started(docs, inbox)

\* The clock moves on.
Tick ==
    /\ now + TickMs <= (MaxTicks + 1) * TickMs
    /\ now' = now + TickMs
    /\ lastReturn' = IdleCall
    /\ UNCHANGED <<env, cache, calls, invocations, cacheHistory, lastFailClean>>

\* The state when the module is loaded: as Init, with main() still awaiting
\* server.connect(transport).
InitStart ==
    /\ apiKey \in EnvValues
    /\ appId \in EnvValues
    /\ appSecret \in EnvValues
    /\ docs = DocsClient(apiKey)
    /\ inbox = InboxClient(appId, appSecret)
    /\ accessToken = Null
    /\ tokenExpiry = 0
    /\ now = TickMs
    /\ calls = [c \in Slots |-> IdleCall]
    /\ invocations = 0
    /\ lastReturn = IdleCall
    /\ lastToken = Null
    /\ cacheLife = 0
    /\ cacheIssuedAt = 0
    /\ cacheStoredAt = 0
    /\ lastFailClean = FALSE
    /\ process = Loaded(docs, inbox)

\* server.connect(transport) resolves: main() computes capabilities, warns when
\* there is none, and completes; the server runs.
Connects ==
    /\ process.phase = "starting"
    /\ process' = [process EXCEPT !.phase = "running",
                                  !.warned = Capabilities(docs, inbox) = {}]
    /\ UNCHANGED <<apiKey, appId, appSecret, docs, inbox, cache, now, calls,
                   invocations, lastReturn, cacheHistory, lastFailClean>>

\* server.connect(transport) rejects: main().catch logs "Fatal error:" and
\* calls process.exit(1).
ConnectRejects ==
    /\ process.phase = "starting"
    /\ process' = [process EXCEPT !.phase = "exited", !.fatal = TRUE,
                                  !.exitCode = 1]
    /\ UNCHANGED <<apiKey, appId, appSecret, docs, inbox, cache, now, calls,
                   invocations, lastReturn, cacheHistory, lastFailClean>>

\* The dispatcher may start an invocation in the lowest free slot.
CanInvoke(c) ==
    /\ ~InFlight(c)
    /\ \A d \in Slots : d < c => InFlight(d)
    /\ invocations < MaxInvocations

\* The handler of the invocation in slot c returns envelope.
Return(c, cause, r, envelope) ==
    /\ lastReturn' = Returned(calls[c], cause, r, envelope)
    /\ calls' = [calls EXCEPT ![c] = IdleCall]

\* A docs_* handler up to its first await: the guard, then DocsClient.request
\* up to fetch().
InvokeDocs(c, h) ==
    /\ CanInvoke(c)
    /\ Offered(h)
    /\ invocations' = invocations + 1
    /\ LET call == [IdleCall EXCEPT !.family = "docs", !.ack = h.ack,
                                    !.tool = h.tool, !.params = h.params,
                                    !.op = h.op]
       IN IF docs = Null
          THEN /\ lastReturn' = Returned(call, "gate", NoResponse,
                                        errResult(DocsNotConfigured))
               /\ UNCHANGED calls
          ELSE /\ calls' = [calls EXCEPT ![c] =
                                [call EXCEPT !.pc = "apiFetch", !.apiReqs = 1,
                                    !.req = BuildRequest("docs",
                                               DocsCall(h.op.name, h.op.args),
                                               getAuthHeader(apiKey))]]
               /\ lastReturn' = IdleCall
    /\ UNCHANGED <<env, cache, now, cacheHistory, lastFailClean>>

\* An inbox_* handler up to its first await: the guard, then request() and
\* getAccessToken() up to the return of the cached token or to fetch(TOKEN_URL).
InvokeInbox(c, h) ==
    /\ CanInvoke(c)
    /\ Offered(h)
    /\ invocations' = invocations + 1
    /\ LET call == [IdleCall EXCEPT !.family = "inbox", !.ack = h.ack,
                                    !.tool = h.tool, !.params = h.params,
                                    !.op = h.op]
       IN IF inbox = Null
          THEN /\ lastReturn' = Returned(call, "gate", NoResponse,
                                        errResult(InboxNotConfigured))
               /\ UNCHANGED <<calls, lastFailClean>>
          ELSE /\ lastFailClean' = FALSE
               /\ lastReturn' = IdleCall
               /\ IF CacheValid(accessToken, tokenExpiry, now)
                  THEN calls' = [calls EXCEPT ![c] =
                           [call EXCEPT !.pc = "gotToken", !.token = accessToken,
                                        !.afterFail = lastFailClean]]
                  ELSE calls' = [calls EXCEPT ![c] =
                           [call EXCEPT !.pc = "tokenFetch", !.tokReqs = 1,
                                        !.sentAt = now,
                                        !.afterFail = lastFailClean]]
    /\ UNCHANGED <<env, cache, now, cacheHistory>>

\* `await fetch(TOKEN_URL, ...)` rejects; the error passes through request() and
\* the client method to the handler's catch.
TokenFetchRejects(c) ==
    /\ calls[c].pc = "tokenFetch"
    /\ Return(c, "tokenFetch", NoResponse, errResult(FetchFailed))
    /\ UNCHANGED <<env, cache, now, invocations, cacheHistory, lastFailClean>>

\* Mutant of OAuthFails: a failed exchange resets the cache to absent.
OAuthFailsClears(c, r) ==
    /\ calls[c].pc = "tokenFetch"
    /\ ~ResponseOk(r)
    /\ accessToken' = Null
    /\ tokenExpiry' = 0
    /\ lastFailClean' = ~calls[c].sawStore
    /\ Return(c, "oauth", r, errResult(OAuthErrorMessage(r.status, r.text)))
    /\ UNCHANGED <<env, now, invocations, cacheHistory>>

\* getAccessToken resumes with the non-2xx answer r and throws; the handler's
\* catch turns the error into the failure envelope.  lastFailClean records that
\* the cache was not written between the check of c and this failure.
OAuthFails(c, r) ==
    /\ calls[c].pc = "tokenFetch"
    /\ ~ResponseOk(r)
    /\ lastFailClean' = ~calls[c].sawStore
    /\ Return(c, "oauth", r, errResult(OAuthErrorMessage(r.status, r.text)))
    /\ UNCHANGED <<env, cache, now, invocations, cacheHistory>>

\* getAccessToken resumes with the 2xx answer r, whose body is not JSON:
\* response.json() rejects and the error reaches the handler's catch.
TokenParseFails(c, r) ==
    /\ calls[c].pc = "tokenFetch"
    /\ ResponseOk(r)
    /\ ~TokenBodyParses(r)
    /\ Return(c, "tokenParse", r, errResult(JSONParse(r.text).message))
    /\ UNCHANGED <<env, cache, now, invocations, cacheHistory, lastFailClean>>

\* getAccessToken resumes with the parsed 2xx answer r, writes the cache and
\* returns the token to request().
StoreToken(c, r) ==
    /\ calls[c].pc = "tokenFetch"
    /\ ResponseOk(r)
    /\ TokenBodyParses(r)
    /\ accessToken' = StoredToken(accessToken, r.data.access_token)
    /\ tokenExpiry' = ComputeExpiry(now, r.data.expires_in)
    /\ lastToken' = r.data.access_token
    /\ cacheLife' = r.data.expires_in
    /\ cacheIssuedAt' = r.issuedAt
    /\ cacheStoredAt' = now
    /\ calls' = [d \in Slots |->
          IF d = c
          THEN [calls[d] EXCEPT !.pc = "gotToken", !.token = accessToken',
                                !.sentAt = 0, !.sawStore = FALSE]
          ELSE IF calls[d].pc = "tokenFetch"
          THEN [calls[d] EXCEPT !.sawStore = TRUE]
          ELSE calls[d]]
    /\ lastFailClean' = FALSE
    /\ lastReturn' = IdleCall
    /\ UNCHANGED <<env, now, invocations>>

\* Mutant of SendApiRequest: the header is built from the cache as it is when
\* the request is sent, not from the token handed to this call.
SendApiRequestFromCache(c) ==
    /\ calls[c].pc = "gotToken"
    /\ calls' = [calls EXCEPT ![c] =
                    [@ EXCEPT !.pc = "apiFetch", !.apiReqs = @ + 1,
                              !.req = BuildRequest("inbox",
                                         InboxCall(calls[c].op.name,
                                                   calls[c].op.args),
                                         BearerHeader(accessToken))]]
    /\ lastReturn' = IdleCall
    /\ UNCHANGED <<env, cache, now, invocations, cacheHistory, lastFailClean>>

\* InboxClient.request resumes after `await this.getAccessToken()`, builds the
\* request with the Bearer token and calls fetch().
SendApiRequest(c) ==
    /\ calls[c].pc = "gotToken"
    /\ calls' = [calls EXCEPT ![c] =
                    [@ EXCEPT !.pc = "apiFetch", !.apiReqs = @ + 1,
                              !.req = BuildRequest("inbox",
                                         InboxCall(calls[c].op.name,
                                                   calls[c].op.args),
                                         BearerHeader(calls[c].token))]]
    /\ lastReturn' = IdleCall
    /\ UNCHANGED <<env, cache, now, invocations, cacheHistory, lastFailClean>>

\* What the handler returns once the client method resolved with data.
HandlerSuccess(call, data) ==
    textResult(IF call.ack THEN AckPayload ELSE data)

\* The no-body test of both request() methods.
NoContent(r) == r.status = 204 \/ r.contentLength = "0"

\* Mutant of EmptyText: an empty body text is handed to JSON.parse.
EmptyTextParsed(text) == FALSE

\* `if (!text)` of both request() methods.
EmptyText(text) == text = ""

\* Mutant of ApiFetchRejects: a rejected fetch also drops the cached token.
ApiFetchRejectsResets(c) ==
    /\ calls[c].pc = "apiFetch"
    /\ accessToken' = Null
    /\ tokenExpiry' = 0
    /\ Return(c, "apiFetch", NoResponse, errResult(FetchFailed))
    /\ UNCHANGED <<env, now, invocations, cacheHistory, lastFailClean>>

\* `await fetch(url, options)` of either request() rejects.
ApiFetchRejects(c) ==
    /\ calls[c].pc = "apiFetch"
    /\ Return(c, "apiFetch", NoResponse, errResult(FetchFailed))
    /\ UNCHANGED <<env, cache, now, invocations, cacheHistory, lastFailClean>>

\* Mutant of ApiFails: request() sends the request again after a non-2xx
\* answer instead of throwing.
ApiFailsResends(c, r) ==
    /\ calls[c].pc = "apiFetch"
    /\ ~ResponseOk(r)
    /\ calls' = [calls EXCEPT ![c].apiReqs = @ + 1, ![c].sentAt = now]
    /\ UNCHANGED <<env, cache, now, invocations, lastReturn, cacheHistory,
                   lastFailClean>>

\* Mutant of ApiFails: a 401 or 403 answer also invalidates the cached token.
ApiFailsInvalidates(c, r) ==
    /\ calls[c].pc = "apiFetch"
    /\ ~ResponseOk(r)
    /\ IF r.status \in {401, 403}
       THEN accessToken' = Null /\ tokenExpiry' = 0
       ELSE UNCHANGED cache
    /\ Return(c, "api", r,
              errResult(ApiErrorMessage(calls[c].family, r.status, r.text)))
    /\ UNCHANGED <<env, now, invocations, cacheHistory, lastFailClean>>

\* request() resumes with the non-2xx answer r and throws; the handler's catch
\* returns the failure envelope.
ApiFails(c, r) ==
    /\ calls[c].pc = "apiFetch"
    /\ ~ResponseOk(r)
    /\ Return(c, "api", r,
              errResult(ApiErrorMessage(calls[c].family, r.status, r.text)))
    /\ UNCHANGED <<env, cache, now, invocations, cacheHistory, lastFailClean>>

\* request() resumes with the 2xx answer r: no content, an empty text, or a text
\* handed to JSON.parse, which may throw.
ApiSucceeds(c, r) ==
    /\ calls[c].pc = "apiFetch"
    /\ ResponseOk(r)
    /\ LET parsed == JSONParse(r.text)
       IN IF NoContent(r) \/ EmptyText(r.text)
          THEN Return(c, "ok", r, HandlerSuccess(calls[c], EmptyObject))
          ELSE IF parsed.ok
          THEN Return(c, "ok", r, HandlerSuccess(calls[c], parsed.value))
          ELSE Return(c, "parse", r, errResult(parsed.message))
    /\ UNCHANGED <<env, cache, now, invocations, cacheHistory, lastFailClean>>

Next ==
    \/ Tick
    \/ \E c \in Slots, h \in DocsHandlers : InvokeDocs(c, h)
    \/ \E c \in Slots, h \in InboxHandlers : InvokeInbox(c, h)
    \/ \E c \in Slots : TokenFetchRejects(c)
    \/ \E c \in Slots : \E r \in TokenResponses(calls[c].sentAt, now) : OAuthFails(c, r)
    \/ \E c \in Slots : \E r \in TokenResponses(calls[c].sentAt, now) : TokenParseFails(c, r)
    \/ \E c \in Slots : \E r \in TokenResponses(calls[c].sentAt, now) : StoreToken(c, r)
    \/ \E c \in Slots : SendApiRequest(c)
    \/ \E c \in Slots : ApiFetchRejects(c)
    \/ \E c \in Slots, r \in ApiResponses : ApiFails(c, r)
    \/ \E c \in Slots, r \in ApiResponses : ApiSucceeds(c, r)

Spec == Init /\ [][Next]_vars

\* The fully configured server at any point of the life of its InboxClient:
\* just constructed, or holding the token of an earlier exchange, answered and
\* stored at the current instant.
InitWarm ==
    /\ apiKey = "secret" /\ appId = "secret" /\ appSecret = "secret"
    /\ docs = DocsClient(apiKey)
    /\ inbox = InboxClient(appId, appSecret)
    /\ now = TickMs
    /\ calls = [c \in Slots |-> IdleCall]
    /\ invocations = 0
    /\ lastReturn = IdleCall
    /\ lastFailClean = FALSE
    /\ process = Started(docs, inbox)
    /\ \/ /\ accessToken = Null /\ tokenExpiry = 0
          /\ lastToken = Null /\ cacheLife = 0
          /\ cacheIssuedAt = 0 /\ cacheStoredAt = 0
       \/ \E tok \in Tokens, life \in Lifetimes :
             /\ accessToken = StoredToken(Null, tok)
             /\ tokenExpiry = ComputeExpiry(now, life)
             /\ lastToken = tok /\ cacheLife = life
             /\ cacheIssuedAt = now /\ cacheStoredAt = now

SpecWarm == InitWarm /\ [][Next]_vars

\* One invocation of any client method with any arguments, on the fully
\* configured server at any point of the life of its token cache.
\* The process from the load of the module on: it starts or fails to, and
\* once it runs it serves invocations.
NextStart ==
    \/ Connects
    \/ ConnectRejects
    \/ process.phase = "running" /\ Next

SpecStart == InitStart /\ [][NextStart]_vars

NextOps ==
    \/ Tick
    \/ \E h \in AllDocsHandlers : invocations = 0 /\ InvokeDocs(1, h)
    \/ \E h \in AllInboxHandlers : invocations = 0 /\ InvokeInbox(1, h)
    \/ TokenFetchRejects(1)
    \/ \E r \in TokenResponses(calls[1].sentAt, now) : OAuthFails(1, r)
    \/ \E r \in TokenResponses(calls[1].sentAt, now) : TokenParseFails(1, r)
    \/ \E r \in TokenResponses(calls[1].sentAt, now) : StoreToken(1, r)
    \/ SendApiRequest(1)
    \/ ApiFetchRejects(1)
    \/ \E r \in ApiResponses : ApiFails(1, r)
    \/ \E r \in ApiResponses : ApiSucceeds(1, r)

SpecOps == InitWarm /\ [][NextOps]_vars

\* ======================================================================
\* Properties
\* ======================================================================

\* The step in which the invocation of slot c runs the check of getAccessToken,
\* and its two outcomes.
Checks(c) == calls[c].pc = "idle" /\ calls'[c].pc \in {"tokenFetch", "gotToken"}
Exchanges(c) == calls[c].pc = "idle" /\ calls'[c].pc = "tokenFetch"
Reuses(c) == calls[c].pc = "idle" /\ calls'[c].pc = "gotToken"

\* A token is cached and the clock is strictly before the stored expiry.
TokenUsable == accessToken # Null /\ now < tokenExpiry

\* C1: token reuse.  A check made while a token is cached and the clock is
\* strictly before the stored expiry issues no token-exchange request and hands
\* the cached token on (so a second operation inside the validity window of the
\* first one's token adds no exchange to the first one's single exchange); a
\* check issues a token-exchange request only if no token is cached or the
\* clock is not strictly before the stored expiry.
C1_TokenReuse ==
    [][\A c \in Slots :
          /\ (Checks(c) /\ TokenUsable) =>
                 /\ Reuses(c)
                 /\ calls'[c].tokReqs = 0
                 /\ calls'[c].token = accessToken
          /\ Exchanges(c) => (~TokenUsable /\ calls'[c].tokReqs = 1)]_vars

\* The second of two operations run one after the other has reused, inside the
\* validity window, the token the first one obtained.
C1_Witness ==
    /\ invocations = 2
    /\ calls[1].pc = "gotToken" /\ calls[1].tokReqs = 0
    /\ calls[2].pc = "idle"
    /\ calls[1].token = accessToken
    /\ now < tokenExpiry

\* The instant from which the cached token is treated as expired: t0 + (T - 60) s,
\* for the lifetime T and the acquisition time t0 of the cached token.
RenewalInstant == cacheStoredAt + (cacheLife - MarginSec) * MsPerSec

\* C2: token renewal boundary.  With a token cached, a check at or after
\* t0 + (T - 60) s issues a new token exchange and a check strictly before that
\* instant reuses the cached token.
C2_RenewalBoundary ==
    [][\A c \in Slots :
          (Checks(c) /\ accessToken # Null) =>
              IF now >= RenewalInstant
              THEN Exchanges(c) /\ calls'[c].tokReqs = 1
              ELSE Reuses(c) /\ calls'[c].tokReqs = 0]_vars

\* A token with a lifetime above the margin is cached and an invocation has
\* checked it exactly at the renewal instant, and renews it.
C2_Witness ==
    /\ accessToken # Null
    /\ cacheLife > MarginSec
    /\ \E c \in Slots : /\ calls[c].pc = "tokenFetch"
                        /\ calls[c].sentAt = RenewalInstant
                        /\ calls[c].sentAt > cacheStoredAt

\* C3: safety margin.  The stored expiry is never later than the instant the
\* server issued the token plus its lifetime minus 60 s, whatever the delay of
\* the answer.
C3_SafetyMargin ==
    accessToken # Null =>
        tokenExpiry <= cacheIssuedAt + (cacheLife - MarginSec) * MsPerSec

\* C4: a non-2xx answer to the token exchange.  The invocation returns the
\* failure envelope whose text carries the status and the body text, having
\* issued one token-exchange request and no API request; the step that issues
\* the exchange and the step that fails leave the cached token and the stored
\* expiry as they were.
C4_OAuthFailure ==
    /\ [](lastReturn.cause = "oauth" =>
            /\ lastReturn.pc = "returned"
            /\ lastReturn.result.isError
            /\ Contains(lastReturn.result.text, ToString(lastReturn.resp.status))
            /\ Contains(lastReturn.result.text, lastReturn.resp.text)
            /\ lastReturn.tokReqs = 1
            /\ lastReturn.apiReqs = 0)
    /\ [][(lastReturn'.cause = "oauth" \/ \E c \in Slots : Exchanges(c))
             => (accessToken' = accessToken /\ tokenExpiry' = tokenExpiry)]_vars

\* An exchange was answered 401 while a token (expired) was cached.
C4_Witness ==
    /\ lastReturn.cause = "oauth"
    /\ lastReturn.resp.status = 401
    /\ accessToken # Null

\* C5: retry after a failed exchange.  The invocation that follows a failed
\* token exchange (no exchange having succeeded since the failed operation made
\* its check) has issued a token-exchange request of its own; once that exchange
\* has succeeded it holds the token and its API request can go out, and goes out
\* once; it is never refused by the guard.
C5_RetryAfterFailure ==
    /\ \A c \in Slots :
          calls[c].afterFail =>
              /\ calls[c].pc \in {"tokenFetch", "gotToken", "apiFetch"}
              /\ calls[c].tokReqs = 1
              /\ calls[c].pc = "tokenFetch" => calls[c].apiReqs = 0
              /\ calls[c].pc = "gotToken" =>
                    (calls[c].token \in Tokens /\ ENABLED SendApiRequest(c))
              /\ calls[c].pc = "apiFetch" => calls[c].apiReqs = 1
    /\ lastReturn.afterFail =>
          /\ lastReturn.tokReqs = 1
          /\ lastReturn.cause # "gate"
          /\ lastReturn.cause \in {"apiFetch", "api", "ok", "parse"}
                => lastReturn.apiReqs = 1

\* The invocation after a failed exchange has exchanged successfully and its API
\* request is out.
C5_Witness ==
    \E c \in Slots : /\ calls[c].afterFail
                     /\ calls[c].pc = "apiFetch"
                     /\ calls[c].tokReqs = 1 /\ calls[c].apiReqs = 1

\* C6: unguarded token race.  No exchange waits for another: whenever an
\* exchange is in flight its answer can be taken, whatever the other invocation
\* is doing; every answered exchange overwrites the cache, so the cache holds
\* the token of the exchange answered last.
C6_UnguardedRace ==
    /\ accessToken = lastToken
    /\ \A c \in Slots :
          calls[c].pc = "tokenFetch" =>
              /\ calls[c].tokReqs = 1
              /\ ENABLED (\E r \in TokenResponses(calls[c].sentAt, now) :
                            StoreToken(c, r))

\* Two token exchanges are in flight at once, both started with no token cached.
C6_Witness ==
    /\ accessToken = Null
    /\ \A c \in Slots : calls[c].pc = "tokenFetch" /\ calls[c].tokReqs = 1

\* C7: short lifetimes.  A cached token whose declared lifetime was 60 s or less
\* has a stored expiry that was not in the future when it was stored, and every
\* check that finds it cached issues a new token exchange.
C7_ShortLifetime ==
    /\ []((accessToken # Null /\ cacheLife <= MarginSec) =>
             (tokenExpiry <= cacheStoredAt /\ tokenExpiry <= now))
    /\ [][\A c \in Slots :
             (Checks(c) /\ accessToken # Null /\ cacheLife <= MarginSec) =>
                 (Exchanges(c) /\ calls'[c].tokReqs = 1)]_vars

\* A token of lifetime 60 s is cached and the next invocation, at the instant
\* the token was stored, is exchanging again.
C7_Witness ==
    /\ accessToken # Null
    /\ cacheLife = MarginSec
    /\ invocations = 2
    /\ \E c \in Slots : /\ calls[c].pc = "tokenFetch"
                        /\ calls[c].sentAt = cacheStoredAt

\* The steps in which getAccessToken hands a token to request(): a reuse, or the
\* arrival of the answer to the invocation's own exchange.
Acquires(c) == calls[c].pc = "tokenFetch" /\ calls'[c].pc = "gotToken"
HandsOver(c) == Reuses(c) \/ Acquires(c)

\* C8: usability invariant, as claimed.  A token is handed to a request only if
\* the clock is strictly before the expiry stored for it at that moment, for
\* reused and for newly acquired tokens, for every lifetime.
C8_UsableWhenHanded ==
    [][\A c \in Slots : HandsOver(c) => now < tokenExpiry']_vars

\* C8, amended.  A reused token is handed over only if the clock is strictly
\* before its stored expiry; a token acquired by the same invocation is handed
\* over whatever its lifetime, and the clock is strictly before its stored
\* expiry exactly when its declared lifetime exceeds 60 s.
C8_UsableWhenReused ==
    [][\A c \in Slots :
          /\ Reuses(c) =>
                /\ accessToken # Null /\ now < tokenExpiry
                /\ calls'[c].token = accessToken
                /\ UNCHANGED <<accessToken, tokenExpiry>>
          /\ Acquires(c) =>
                /\ calls'[c].token = accessToken'
                /\ (now < tokenExpiry') <=> (cacheLife' > MarginSec)]_vars

\* An invocation holds the token of its own exchange, of a lifetime of 60 s or
\* less, which was never usable.
C8_Witness ==
    \E c \in Slots : /\ calls[c].pc = "gotToken"
                     /\ calls[c].tokReqs = 1
                     /\ calls[c].token = accessToken
                     /\ cacheLife <= MarginSec
                     /\ tokenExpiry <= cacheStoredAt

\* An environment value that is not set or is the empty string.
Absent(v) == v \in {Undefined, ""}
DocsConfigured == ~Absent(apiKey)
InboxConfigured == ~Absent(appId) /\ ~Absent(appSecret)

\* The invocation that has just returned was stopped by the guard of its handler:
\* it got the fixed failure envelope of its family and issued no request.
NotConfiguredReturn ==
    /\ lastReturn.result.isError
    /\ lastReturn.result.text =
          (IF lastReturn.family = "docs"
           THEN "Error: HELPSCOUT_API_KEY not configured"
           ELSE "Error: HELPSCOUT_APP_ID and HELPSCOUT_APP_SECRET not configured")
    /\ lastReturn.tokReqs = 0
    /\ lastReturn.apiReqs = 0

\* C9: credential gating.  With no Docs key and no Inbox credentials, no
\* invocation ever has a request in flight, and every invocation returns a
\* failure envelope whose text contains "not configured", having issued no
\* token exchange and no API request.
C9_CredentialGating ==
    (Absent(apiKey) /\ Absent(appId) /\ Absent(appSecret)) =>
        /\ \A c \in Slots : calls[c].pc = "idle"
        /\ accessToken = Null
        /\ lastReturn.pc = "returned" =>
              /\ lastReturn.result.isError
              /\ Contains(lastReturn.result.text, "not configured")
              /\ lastReturn.tokReqs = 0
              /\ lastReturn.apiReqs = 0

\* With the three values empty strings, an inbox_* tool has just been refused.
C9_Witness ==
    /\ apiKey = "" /\ appId = "" /\ appSecret = ""
    /\ lastReturn.pc = "returned"
    /\ lastReturn.family = "inbox"
    /\ invocations = 2

\* C10: independent enabling.  In each of the combinations of the three values,
\* an invocation of a family gets past the guard iff that family's credentials
\* are all non-empty; a refused invocation returns the fixed failure envelope and
\* issues no request; the credentials of the other family play no part.
C10_IndependentEnabling ==
    /\ \A c \in Slots :
          /\ calls[c].family = "docs" => DocsConfigured
          /\ calls[c].family = "inbox" => InboxConfigured
    /\ lastReturn.pc = "returned" =>
          /\ lastReturn.family = "docs" =>
                (lastReturn.cause = "gate" <=> ~DocsConfigured)
          /\ lastReturn.family = "inbox" =>
                (lastReturn.cause = "gate" <=> ~InboxConfigured)
          /\ lastReturn.cause = "gate" => NotConfiguredReturn
          /\ lastReturn.cause # "gate" =>
                (lastReturn.tokReqs + lastReturn.apiReqs >= 1)

\* With the Docs key and only the client id set, an inbox_* tool has just been
\* refused while a docs_* request is in flight.
C10_Witness ==
    /\ apiKey = "secret" /\ appId = "secret" /\ appSecret = Undefined
    /\ lastReturn.pc = "returned"
    /\ lastReturn.family = "inbox" /\ lastReturn.cause = "gate"
    /\ calls[1].family = "docs" /\ calls[1].pc = "apiFetch"

\* ---------------------------------------------------------------- requests
\* The position of the params object among the arguments of a list method.
ParamsIndex ==
    [listCollections |-> 1, searchArticles |-> 1, listConversations |-> 1,
     listCustomers |-> 1, listCategories |-> 2, listRelatedArticles |-> 2,
     listRevisions |-> 2, listRedirects |-> 2, listArticles |-> 3]

\* The optional filters of a client call, each with the value passed for it: the
\* keys of the params object of a list method, or an optional positional
\* argument.
FiltersPassed(op) ==
    CASE op.name \in DOMAIN FilterKeys ->
           {<<FilterKeys[op.name][i][1],
              Get(Arg(op.args, ParamsIndex[op.name]), FilterKeys[op.name][i][1])>> :
               i \in 1..Len(FilterKeys[op.name])}
      [] op.name \in {"listSites", "listMailboxes", "listUsers", "listTags"} ->
           {<<"page", Arg(op.args, 1)>>}
      [] op.name = "getArticle" -> {<<"draft", Arg(op.args, 2)>>}
      [] op.name = "getConversation" -> {<<"embed", Arg(op.args, 2)>>}
      [] OTHER -> {}

\* undefined, null and the empty string.
AbsentValues == {JSUndefined, JSNull, JSString("")}

\* The URL has a query parameter of that name.
HasParam(url, key) ==
    \/ Contains(url, "?" \o key \o "=")
    \/ Contains(url, "&" \o key \o "=")

\* The invocation in slot c has handed its API request to fetch().
Sent(c) == calls[c].req # NoRequest

\* C11, as claimed: in every request sent, a filter for which undefined, null or
\* the empty string was passed is absent from the URL, for every method of both
\* clients.
C11_QueryOmission ==
    \A c \in Slots :
        Sent(c) =>
            \A f \in FiltersPassed(calls[c].op) :
                f[2] \in AbsentValues => ~HasParam(calls[c].req.url, f[1])

\* C11, amended: the same for every filter except the page of listSites; for
\* listSites only the empty string leaves the parameter out, undefined sends the
\* default page=1 and null sends page=null.
C11_QueryOmissionButListSites ==
    \A c \in Slots :
        Sent(c) =>
            LET op == calls[c].op
                url == calls[c].req.url
            IN IF op.name = "listSites"
               THEN /\ Arg(op.args, 1) = JSUndefined =>
                          url = DocsBaseUrl \o "/sites?page=1"
                    /\ Arg(op.args, 1) = JSNull =>
                          url = DocsBaseUrl \o "/sites?page=null"
                    /\ Arg(op.args, 1) = JSString("") =>
                          url = DocsBaseUrl \o "/sites"
               ELSE \A f \in FiltersPassed(op) :
                        f[2] \in AbsentValues => ~HasParam(url, f[1])

\* listConversations was called with the empty string for status and "v" for
\* the other filters, and the request sent names the other filters only.
C11_Witness ==
    /\ Sent(1)
    /\ calls[1].op.name = "listConversations"
    /\ Get(Arg(calls[1].op.args, 1), "status") = JSString("")
    /\ Get(Arg(calls[1].op.args, 1), "tag") = JSString("v")
    /\ HasParam(calls[1].req.url, "tag")
    /\ ~HasParam(calls[1].req.url, "status")

\* The Docs PUT methods that do not update a resource as a whole.
PartialUpdates == {"updateCategoryOrder", "saveArticleDraft", "updateViewCount"}

\* C12, as claimed: every POST or PUT sent by the Docs client has a path ending
\* with ?reload=true, and every DELETE or GET has a path without it.
C12_WriteReload ==
    \A c \in Slots :
        (Sent(c) /\ calls[c].family = "docs") =>
            IF calls[c].req.method \in {"POST", "PUT"}
            THEN EndsWith(calls[c].req.path, "?reload=true")
            ELSE ~Contains(calls[c].req.path, "reload")

\* C12, amended: every POST, and every PUT except those of category
\* reordering, draft saving and view-count updating, has a path ending with
\* ?reload=true; those three PUTs and every DELETE and GET have a path without
\* it.
C12_WriteReloadButPartial ==
    \A c \in Slots :
        (Sent(c) /\ calls[c].family = "docs") =>
            IF /\ calls[c].req.method \in {"POST", "PUT"}
               /\ calls[c].op.name \notin PartialUpdates
            THEN /\ EndsWith(calls[c].req.path, "?reload=true")
                 /\ EndsWith(calls[c].req.url, "?reload=true")
            ELSE /\ calls[c].req.method \in {"GET", "DELETE", "PUT"}
                 /\ ~Contains(calls[c].req.url, "reload")

\* A draft is being saved: a PUT whose path has no ?reload=true.
C12_Witness ==
    /\ Sent(1)
    /\ calls[1].op.name = "saveArticleDraft"
    /\ calls[1].req.method = "PUT"
    /\ calls[1].req.path = "/articles/X/drafts"

\* C13: parent-type dispatch.  listArticles with parent type "collection" and
\* id X sends its GET to /collections/X/articles, with parent type "category"
\* and the same id to /categories/X/articles, whatever the id and the other
\* params are; the docs_list_articles handler passes the parentId and the
\* parentType of its params on unchanged.
C13_ParentDispatch ==
    \A c \in Slots :
        (Sent(c) /\ calls[c].op.name = "listArticles") =>
            LET id == Arg(calls[c].op.args, 1)
                type == Arg(calls[c].op.args, 2)
                target == IF type = JSString("collection")
                          THEN "/collections/" \o String(id) \o "/articles"
                          ELSE "/categories/" \o String(id) \o "/articles"
            IN /\ type \in {JSString("collection"), JSString("category")}
               /\ calls[c].req.method = "GET"
               /\ calls[c].req.path = target
               /\ \/ calls[c].req.url = DocsBaseUrl \o target
                  \/ Contains(calls[c].req.url, DocsBaseUrl \o target \o "?")
               /\ calls[c].tool = "docs_list_articles" =>
                     /\ id = Get(calls[c].params, "parentId")
                     /\ type = Get(calls[c].params, "parentType")

\* docs_list_articles was invoked for the category whose id is X, an id for
\* which a collection is listed in another behaviour.
C13_Witness ==
    /\ Sent(1)
    /\ calls[1].tool = "docs_list_articles"
    /\ Get(calls[1].params, "parentId") = JSString("X")
    /\ Get(calls[1].params, "parentType") = JSString("category")
    /\ calls[1].req.path = "/categories/X/articles"

\* ------------------------------------------------------ properties: answers
\* The invocation that returned last had sent its API request and received r.
Answered == lastReturn.pc = "returned" /\ lastReturn.apiReqs = 1
            /\ lastReturn.resp # NoResponse

Success(status) == status \in 200..299

\* A 2xx answer that carries no body: status 204, a content-length header of
\* zero, or an empty body text.
Bodyless(r) ==
    Success(r.status) /\ (r.status = 204 \/ r.contentLength = "0" \/ r.text = "")

\* C14: empty-body handling.  In both clients a 2xx answer with status 204,
\* with a content-length of zero or with an empty body text makes the request
\* resolve with the empty object: the handler returns a success envelope, whose
\* text is "{}" when the handler passes the client's result on, and never an
\* error, null or undefined.
C14_EmptyBody ==
    (Answered /\ Bodyless(lastReturn.resp)) =>
        /\ lastReturn.cause = "ok"
        /\ lastReturn.result.isError = FALSE
        /\ ~lastReturn.ack => lastReturn.result.text = "{}"
        /\ lastReturn.result.text \notin {"null", "undefined", ""}

\* An Inbox handler that passes the result on received 200 with an empty body
\* text and no content-length of zero, and returned "{}".
C14_Witness ==
    /\ Answered
    /\ lastReturn.family = "inbox"
    /\ ~lastReturn.ack
    /\ lastReturn.resp.status = 200
    /\ lastReturn.resp.contentLength # "0"
    /\ lastReturn.resp.text = ""
    /\ lastReturn.result = [isError |-> FALSE, text |-> "{}"]

\* C15: error propagation.  In both clients a non-2xx answer of the API makes
\* the request throw an error whose message holds the numeric status code and
\* the raw body text; no result is returned, and the only envelope is the one
\* the handler's catch builds from that message.
C15_ErrorPropagation ==
    (Answered /\ ~Success(lastReturn.resp.status)) =>
        LET r == lastReturn.resp
            message == (IF lastReturn.family = "docs"
                        THEN "Help Scout Docs API error "
                        ELSE "Help Scout Inbox API error ")
                       \o ToString(r.status) \o ": " \o r.text
        IN /\ lastReturn.cause = "api"
           /\ lastReturn.result = [isError |-> TRUE, text |-> "Error: " \o message]
           /\ Contains(lastReturn.result.text, ToString(r.status))
           /\ Contains(lastReturn.result.text, r.text)

\* A Docs handler received 500 with the body "Internal Server Error".
C15_Witness ==
    /\ Answered
    /\ lastReturn.family = "docs"
    /\ lastReturn.resp.status = 500
    /\ lastReturn.result.text =
           "Error: Help Scout Docs API error 500: Internal Server Error"

\* The causes for which a client call ends in a thrown error.
ClientFailures == {"tokenFetch", "oauth", "tokenParse", "apiFetch", "api", "parse"}

\* The message of the error the client threw in the invocation ret.
ThrownMessage(ret) ==
    CASE ret.cause \in {"tokenFetch", "apiFetch"} -> "fetch failed"
      [] ret.cause = "oauth" ->
            "Help Scout OAuth error " \o ToString(ret.resp.status) \o ": "
            \o ret.resp.text
      [] ret.cause = "api" ->
            "Help Scout " \o (IF ret.family = "docs" THEN "Docs" ELSE "Inbox")
            \o " API error " \o ToString(ret.resp.status) \o ": " \o ret.resp.text
      [] ret.cause \in {"tokenParse", "parse"} -> JSONParse(ret.resp.text).message
      [] OTHER -> ""

\* C16: envelope totality.  Every exposed handler ends by returning one of
\* the two envelope shapes and never throws: each error of a client call (OAuth
\* error, API error, network failure, unparsable response) becomes the failure
\* envelope flagged as error whose text is "Error: " followed by the message of
\* the error, and only a successful call gives the success envelope.
C16_EnvelopeTotality ==
    lastReturn.pc = "returned" =>
        /\ lastReturn.cause \in {"gate", "ok"} \cup ClientFailures
        /\ lastReturn.result \in [isError : BOOLEAN, text : STRING]
        /\ lastReturn.cause = "ok" <=> ~lastReturn.result.isError
        /\ lastReturn.cause \in ClientFailures =>
              lastReturn.result =
                  [isError |-> TRUE,
                   text |-> "Error: " \o ThrownMessage(lastReturn)]

\* The acknowledging handler inbox_delete_conversation ended with the envelope
\* of a body that JSON.parse rejected.
C16_Witness ==
    /\ lastReturn.pc = "returned"
    /\ lastReturn.tool = "inbox_delete_conversation"
    /\ lastReturn.cause = "parse"
    /\ lastReturn.result.isError
    /\ lastReturn.result.text = "Error: Unexpected token < in JSON at position 0"

\* C17: single attempt.  One handler invocation sends at most one API request
\* and at most one token exchange request (none at all for Docs), and a failed
\* request is not sent again: the invocation ends with the first failure.
C17_SingleAttempt ==
    /\ \A c \in Slots :
          /\ calls[c].tokReqs <= 1
          /\ calls[c].apiReqs <= 1
          /\ calls[c].family = "docs" => calls[c].tokReqs = 0
    /\ lastReturn.tokReqs <= 1
    /\ lastReturn.apiReqs <= 1
    /\ lastReturn.cause \in {"tokenFetch", "oauth", "tokenParse"} =>
          lastReturn.tokReqs = 1 /\ lastReturn.apiReqs = 0
    /\ lastReturn.cause \in {"apiFetch", "api", "parse"} =>
          lastReturn.apiReqs = 1

\* An Inbox invocation sent its token exchange and its API request, one each,
\* and ended with the error of the API.
C17_Witness ==
    /\ lastReturn.pc = "returned"
    /\ lastReturn.family = "inbox"
    /\ lastReturn.cause = "api"
    /\ lastReturn.tokReqs = 1
    /\ lastReturn.apiReqs = 1

\* ---------------------------------------------------- properties: scenarios
\* Slot c runs inbox_create_reply with {conversationId: 42, text: "hello"}.
CreateReply(call) ==
    call.tool = "inbox_create_reply" /\ call.params = CreateReplyParams

\* The one request of the create-reply scenario, sent with the given token.
ReplyRequest(token) ==
    [method |-> "POST",
     path |-> "/conversations/42/reply",
     url |-> "https://api.helpscout.net/v2/conversations/42/reply",
     authorization |-> "Bearer " \o token,
     contentType |-> "application/json",
     body |-> "{\"text\":\"hello\"}"]

\* C18, state part: the invocation has sent nothing or exactly the one POST of
\* ReplyRequest, with a token of the token endpoint; an invocation that got its
\* token ended having sent it once, and one that sent nothing ended at the
\* configuration gate or in a failed token exchange.
C18_OneReplyRequest ==
    /\ \A c \in Slots : CreateReply(calls[c]) =>
          /\ calls[c].apiReqs = (IF Sent(c) THEN 1 ELSE 0)
          /\ Sent(c) => \E t \in Tokens : calls[c].req = ReplyRequest(t)
    /\ (lastReturn.pc = "returned" /\ CreateReply(lastReturn)) =>
          /\ lastReturn.cause \in {"ok", "api", "apiFetch", "parse"} =>
                /\ lastReturn.apiReqs = 1
                /\ \E t \in Tokens : lastReturn.req = ReplyRequest(t)
          /\ lastReturn.cause \in {"gate", "tokenFetch", "oauth", "tokenParse"} =>
                lastReturn.apiReqs = 0 /\ lastReturn.req = NoRequest

\* C18, step part: with no usable token cached the invocation starts with the
\* token exchange and sends nothing yet; the exchange ends either in the token
\* that was just stored or in the end of the invocation; the POST is sent in a
\* later step, with the token handed over, and it is the only thing an
\* invocation holding its token does.
C18_ExchangeFirst ==
    \A c \in Slots :
        /\ (CreateReply(calls'[c]) /\ Checks(c) /\ ~TokenUsable) =>
              Exchanges(c) /\ calls'[c].tokReqs = 1 /\ calls'[c].req = NoRequest
        /\ (CreateReply(calls'[c]) /\ Reuses(c)) =>
              TokenUsable /\ calls'[c].token = accessToken
        /\ (CreateReply(calls[c]) /\ calls[c].pc = "tokenFetch"
                /\ calls'[c].pc # calls[c].pc) =>
              \/ /\ Acquires(c)
                 /\ calls'[c].token = accessToken'
                 /\ accessToken' \in Tokens
                 /\ calls'[c].req = NoRequest
              \/ /\ calls'[c] = IdleCall
                 /\ lastReturn'.result.isError
                 /\ lastReturn'.req = NoRequest
        /\ (CreateReply(calls[c]) /\ calls[c].pc = "gotToken"
                /\ calls'[c].pc # calls[c].pc) =>
              /\ calls[c].token \in Tokens
              /\ calls'[c].req = ReplyRequest(calls[c].token)
              /\ calls'[c].pc = "apiFetch"

\* C18: end-to-end create reply.  inbox_create_reply with {conversationId: 42,
\* text: "hello"} sends exactly one POST to /conversations/42/reply with a
\* Bearer token and the body {"text":"hello"}, the conversation id being in the
\* path and not in the body; with no valid token cached a token exchange comes
\* first, and its success strictly precedes the POST.
C18_CreateReply == []C18_OneReplyRequest /\ [][C18_ExchangeFirst]_vars

\* The invocation found no usable token, exchanged one and has sent the POST
\* with it.
C18_Witness ==
    \E c \in Slots :
        /\ CreateReply(calls[c])
        /\ calls[c].tokReqs = 1
        /\ calls[c].pc = "apiFetch"
        /\ calls[c].req = ReplyRequest("tokA")

\* The one request of the create-collection scenario.
CollectionRequest ==
    [method |-> "POST",
     path |-> "/collections?reload=true",
     url |-> "https://docsapi.helpscout.net/v1/collections?reload=true",
     authorization |-> "Basic c2VjcmV0Olg=",
     contentType |-> "application/json",
     body |-> "{\"siteId\":\"abc123\",\"name\":\"FAQ\"}"]

CreateCollection(call) ==
    call.tool = "docs_create_collection" /\ call.params = CreateCollectionParams

\* C19: end-to-end create collection.  docs_create_collection with {siteId:
\* "abc123", name: "FAQ"} sends exactly one POST to /collections?reload=true
\* with that object as JSON body and the Basic header of base64(apiKey:X), and
\* no token exchange; on a 200 answer with a JSON body it returns the success
\* envelope of the parsed body.
C19_CreateCollection ==
    /\ \A c \in Slots : (CreateCollection(calls[c]) /\ InFlight(c)) =>
          /\ apiKey = "secret"
          /\ calls[c].apiReqs = 1
          /\ calls[c].tokReqs = 0
          /\ calls[c].req = CollectionRequest
    /\ (lastReturn.pc = "returned" /\ CreateCollection(lastReturn)
            /\ lastReturn.cause # "gate") =>
          /\ lastReturn.apiReqs = 1
          /\ lastReturn.tokReqs = 0
          /\ lastReturn.req = CollectionRequest
          /\ (lastReturn.resp.status = 200 /\ lastReturn.resp.text = "{\"id\":1}") =>
                lastReturn.result =
                    [isError |-> FALSE, text |-> "{\n  \"id\": 1\n}"]

\* The invocation returned the parsed body of the 200 answer.
C19_Witness ==
    /\ lastReturn.pc = "returned"
    /\ CreateCollection(lastReturn)
    /\ lastReturn.req = CollectionRequest
    /\ lastReturn.resp.status = 200
    /\ lastReturn.result = [isError |-> FALSE, text |-> "{\n  \"id\": 1\n}"]

\* ------------------------------------------------- properties: token cache
\* C20, state part: before the first successful exchange the cache is as
\* constructed, no token and expiry 0; afterwards the token and the expiry both
\* come from the answer of the exchange that completed last.
C20_CacheOfOneAnswer ==
    /\ lastToken = Null => (accessToken = Null /\ tokenExpiry = 0)
    /\ lastToken # Null =>
          /\ accessToken = lastToken
          /\ accessToken \in Tokens
          /\ tokenExpiry = cacheStoredAt + (cacheLife - 60) * 1000

\* C20, step part: the cache changes only in the step that completes a
\* successful exchange, which writes the token and the expiry of its answer
\* together; a step that ends an invocation, with whatever envelope, leaves the
\* cache alone, and a cached token is never taken away.
C20_CacheSteps ==
    /\ <<accessToken, tokenExpiry>>' # <<accessToken, tokenExpiry>> =>
          \E c \in Slots : Acquires(c)
    /\ \A c \in Slots : Acquires(c) =>
          /\ accessToken' = lastToken'
          /\ tokenExpiry' = now + (cacheLife' - 60) * 1000
          /\ calls'[c].token = accessToken'
    /\ lastReturn'.pc = "returned" =>
          UNCHANGED <<accessToken, tokenExpiry>>
    /\ accessToken # Null => accessToken' # Null

\* C20: token lifecycle.  The Inbox token cache is absent at construction, is
\* populated only by a successful token exchange, is overwritten as a whole,
\* token and expiry together, by each later successful exchange, and once
\* populated is never cleared by any operation or failure.
C20_TokenLifecycle == []C20_CacheOfOneAnswer /\ [][C20_CacheSteps]_vars

\* A later exchange overwrote the cache: one invocation still holds the token
\* "tokA" it was handed with its own exchange, and the cache holds "tokB" with
\* the expiry of the later answer.
C20_Witness ==
    /\ accessToken = "tokB"
    /\ tokenExpiry = cacheStoredAt + (cacheLife - 60) * 1000
    /\ \E c \in Slots : calls[c].token = "tokA" /\ calls[c].tokReqs = 1

\* ------------------------------------------------- properties: Docs client
\* Slot c takes a step of a Docs invocation: it starts one, or the one it runs
\* ends.
DocsStep(c) ==
    \/ calls[c].pc = "idle" /\ calls'[c].family = "docs"
    \/ calls[c].family = "docs" /\ calls'[c] # calls[c]

\* C21, state part: a Docs invocation in flight has sent its request at once,
\* with the Basic header of the API key, the same for every request, and holds
\* no token and has sent no token exchange; so has one that returned.
C21_DocsRequests ==
    /\ \A c \in Slots : calls[c].family = "docs" =>
          /\ calls[c].pc = "apiFetch"
          /\ calls[c].tokReqs = 0
          /\ calls[c].token = Null
          /\ calls[c].req.authorization = "Basic " \o Base64(apiKey \o ":X")
    /\ \A c, d \in Slots :
          (calls[c].family = "docs" /\ calls[d].family = "docs") =>
              calls[c].req.authorization = calls[d].req.authorization
    /\ lastReturn.family = "docs" =>
          /\ lastReturn.tokReqs = 0
          /\ lastReturn.cause \notin {"tokenFetch", "oauth", "tokenParse"}
          /\ lastReturn.cause # "gate" =>
                lastReturn.req.authorization = "Basic " \o Base64(apiKey \o ":X")

\* C21, step part: a step of a Docs invocation, and one that ends a Docs
\* invocation at the gate, changes neither the client nor its key nor the
\* token and the expiry of the Inbox client, and goes the same way whatever the
\* Inbox cache holds.
C21_DocsSteps ==
    /\ \A c \in Slots : DocsStep(c) =>
          /\ UNCHANGED <<apiKey, docs, inbox, accessToken, tokenExpiry>>
          /\ calls'[c].pc \in {"idle", "apiFetch"}
    /\ (lastReturn'.family = "docs" /\ lastReturn' # lastReturn) =>
          UNCHANGED <<apiKey, docs, inbox, accessToken, tokenExpiry>>

\* C21: Docs statelessness.  The Docs client has no mutable state: its
\* Authorization header is computed from the API key for every request and is
\* the same for all of them, no Docs operation sends a token exchange, and none
\* touches the token or the expiry cached by the Inbox client.
C21_DocsStateless == []C21_DocsRequests /\ [][C21_DocsSteps]_vars

\* Two Docs requests are in flight with the same header while the Inbox client
\* holds a token.
C21_Witness ==
    /\ accessToken # Null
    /\ \A c \in Slots :
          /\ calls[c].family = "docs"
          /\ calls[c].req.authorization = "Basic c2VjcmV0Olg="

\* ---------------------------------------------------- properties: startup
\* The process ended, and only by the fatal path with exit status 1; a process
\* that has not ended has no exit status.
ExitOnlyWhenFatal ==
    /\ process.phase = "exited" <=> process.fatal
    /\ process.phase = "exited" => process.exitCode = 1
    /\ process.phase # "exited" => process.exitCode = Null

\* C22: startup, as claimed.  Missing credentials are not fatal, the process
\* exits with a non-zero status only on a fatal startup error, and the server
\* that started with credentials missing does not offer the tools of the
\* family that is not configured.
C22_ReducedToolSet ==
    /\ ExitOnlyWhenFatal
    /\ process.phase = "starting" => ENABLED Connects
    /\ process.phase = "running" =>
          /\ docs = Null => process.tools \cap DocsTools = {}
          /\ inbox = Null => process.tools \cap InboxTools = {}

\* C22: startup, as the code has it.  Missing credentials are not fatal, and
\* main() warns only when no family at all is configured; the process exits,
\* with status 1, only on a fatal startup error; the server that started offers
\* every tool whatever credentials are missing, and a tool of a family that is
\* not configured answers an invocation with the not-configured failure
\* envelope.
C22_StartupAllTools ==
    /\ ExitOnlyWhenFatal
    /\ process.phase = "starting" => ENABLED Connects
    /\ process.phase = "running" =>
          /\ process.tools = DocsTools \cup InboxTools
          /\ process.warned <=> (docs = Null /\ inbox = Null)
    /\ lastReturn.cause = "gate" =>
          /\ process.phase = "running"
          /\ lastReturn.tool \in process.tools
          /\ lastReturn.family = "docs" => docs = Null
          /\ lastReturn.family = "inbox" => inbox = Null
          /\ lastReturn.result.isError
          /\ Contains(lastReturn.result.text, "not configured")

\* The server started with the Docs key only and without a warning, and the
\* tool inbox_create_reply, which it offers, answered with the not-configured
\* envelope.
C22_Witness ==
    /\ process.phase = "running"
    /\ docs # Null
    /\ inbox = Null
    /\ ~process.warned
    /\ "inbox_create_reply" \in process.tools
    /\ lastReturn.cause = "gate"
    /\ lastReturn.tool = "inbox_create_reply"

\* ------------------------------------------- properties: overlapping calls
\* The token and the expiry of the answer <<tok, life>> that arrived at t.
PairOf(tok, life, t) == <<tok, t + (life - MarginSec) * MsPerSec>>

\* C23, state part: the cache is empty or holds the token and the expiry of
\* one and the same answer, the one that arrived last.
C23_OnePair ==
    \/ <<accessToken, tokenExpiry>> = <<Null, 0>>
    \/ /\ <<accessToken, tokenExpiry>> = PairOf(lastToken, cacheLife, cacheStoredAt)
       /\ lastToken \in Tokens
       /\ cacheLife \in Lifetimes

\* C23, step part: no step writes one of the two fields alone from an answer:
\* a step that completes an exchange, whatever other exchanges are in flight,
\* leaves the cache holding the pair of some answer that arrived now.
C23_PairWritten ==
    (\E c \in Slots : Acquires(c)) =>
        \E tok \in Tokens, life \in Lifetimes :
            /\ <<accessToken, tokenExpiry>>' = PairOf(tok, life, now)
            /\ <<lastToken, cacheLife, cacheStoredAt>>' = <<tok, life, now>>

\* C23: atomic cache update.  In every reachable state, under any interleaving
\* of calls and token exchanges, the cached token and the stored expiry come
\* from the same token answer; the token of one answer is never paired with
\* the expiry computed from another.
C23_AtomicCacheUpdate == []C23_OnePair /\ [][C23_PairWritten]_vars

\* Both slots exchanged a token at the first clock reading and hold different
\* tokens; the cache holds the pair of the answer with token "tokB" and
\* lifetime 90 s, which overwrote the pair of the other answer.
C23_Witness ==
    /\ now = TickMs
    /\ \A c \in Slots : calls[c].tokReqs = 1 /\ calls[c].token \in Tokens
    /\ calls[1].token # calls[2].token
    /\ <<accessToken, tokenExpiry>> = PairOf("tokB", 90, TickMs)

\* The call in slot c holds the token it was handed.
HoldsToken(c) == calls[c].pc \in {"gotToken", "apiFetch"}

\* C24, state part: an Inbox request in flight carries the token its call
\* holds.
C24_SentWithHeldToken ==
    \A c \in Slots : (calls[c].family = "inbox" /\ Sent(c)) =>
        /\ calls[c].token \in Tokens
        /\ calls[c].req.authorization = "Bearer " \o calls[c].token

\* C24, step part: a call that completes its exchange is handed the token of
\* the answer to that exchange; a call that found a usable token is handed the
\* token cached at that check; the token a call holds does not change while
\* the call runs, whatever happens to the cache; and the request is sent with
\* it.
C24_TokenKept ==
    \A c \in Slots :
        /\ Acquires(c) => calls'[c].token = lastToken'
        /\ Reuses(c) => (TokenUsable /\ calls'[c].token = accessToken)
        /\ (HoldsToken(c) /\ calls'[c].pc # "idle") =>
              calls'[c].token = calls[c].token
        /\ (calls[c].pc = "gotToken" /\ calls'[c].pc = "apiFetch") =>
              calls'[c].req.authorization = "Bearer " \o calls[c].token

\* C24: own-token use under concurrency.  A call that performed a token
\* exchange sends its API request with exactly the token its own exchange
\* returned, even if another call overwrites the cache before or after; a call
\* that found a valid cached token sends the token that was cached at its
\* check.
C24_OwnToken == []C24_SentWithHeldToken /\ [][C24_TokenKept]_vars

\* A call exchanged "tokA" and has sent its request with it, although the
\* cache, overwritten by the exchange of the other call, holds "tokB".
C24_Witness ==
    \E c \in Slots :
        /\ calls[c].tokReqs = 1
        /\ calls[c].pc = "apiFetch"
        /\ calls[c].req.authorization = "Bearer tokA"
        /\ accessToken = "tokB"

\* ------------------------------------------- properties: failed API calls
\* An Inbox invocation ended in the step just taken with a non-2xx answer of
\* the API.
InboxApiFailed(ret) ==
    /\ ret.pc = "returned"
    /\ ret.family = "inbox"
    /\ ret.apiReqs = 1
    /\ ret.resp # NoResponse
    /\ ~Success(ret.resp.status)

\* Right after an Inbox invocation ended with a non-2xx answer of the API, with
\* the clock before the stored expiry, an invocation that can start is handed
\* the cached token at once.
C25_ReusedAfterFailure ==
    (InboxApiFailed(lastReturn) /\ accessToken # Null /\ now < tokenExpiry) =>
        \A c \in Slots, h \in InboxHandlers :
            ENABLED InvokeInbox(c, h) =>
                ENABLED (InvokeInbox(c, h) /\ calls'[c].pc = "gotToken"
                            /\ calls'[c].token = accessToken)

\* C25: no invalidation on API failure.  A non-2xx answer to an Inbox API
\* request, 401 included, leaves the cached token and the stored expiry as they
\* were; an invocation that follows it before the stored expiry is handed the
\* cached token and sends no token exchange, as is every invocation that finds
\* the clock before the stored expiry.
C25_NoInvalidation ==
    /\ []C25_ReusedAfterFailure
    /\ [][InboxApiFailed(lastReturn') =>
             /\ UNCHANGED <<accessToken, tokenExpiry>>
             /\ accessToken # Null]_vars
    /\ [][\A c \in Slots :
             (Checks(c) /\ accessToken # Null /\ now < tokenExpiry) =>
                 /\ Reuses(c)
                 /\ calls'[c].token = accessToken
                 /\ calls'[c].tokReqs = 0
                 /\ UNCHANGED <<accessToken, tokenExpiry>>]_vars

\* An Inbox request sent with the cached token was answered 401, and the cache
\* still holds that token, before its expiry, with an invocation left to make.
C25_Witness ==
    /\ InboxApiFailed(lastReturn)
    /\ lastReturn.resp.status = 401
    /\ accessToken \in Tokens
    /\ lastReturn.req.authorization = "Bearer " \o accessToken
    /\ now < tokenExpiry
    /\ invocations < MaxInvocations

\* --------------------------------------------- properties: numeric filters
\* The optional filters that are numbers.
NumericFilters == {"page", "pageSize", "mailbox", "assigned_to"}

\* The client call op without the filter key: the key is not in the params
\* object, or the positional page is not given.
NotPassed(op, key) ==
    IF op.name \in DOMAIN FilterKeys
    THEN Op(op.name,
            [op.args EXCEPT ![ParamsIndex[op.name]] = Rest(@, {key})])
    ELSE Op(op.name, << >>)

\* The URL that the client of that family requests for the call op.
UrlOf(family, op) ==
    BuildRequest(family,
                 IF family = "docs" THEN DocsCall(op.name, op.args)
                 ELSE InboxCall(op.name, op.args),
                 "").url

\* C26: zero-valued numeric filters are dropped.  In every list or search
\* method except listSites, a numeric filter (page, pageSize, mailbox,
\* assigned_to) passed as 0 is absent from the URL requested, which is the URL
\* of the same call without that filter.
C26_ZeroDropped ==
    \A c \in Slots :
        (Sent(c) /\ calls[c].op.name # "listSites") =>
            \A f \in FiltersPassed(calls[c].op) :
                (f[1] \in NumericFilters /\ f[2] = JSNumber(0)) =>
                    /\ ~HasParam(calls[c].req.url, f[1])
                    /\ calls[c].req.url =
                          UrlOf(calls[c].family, NotPassed(calls[c].op, f[1]))

\* listConversations was called with mailbox 0 and "v" for the other filters:
\* the URL names the tag and the page, and no mailbox.
C26_Witness ==
    /\ Sent(1)
    /\ calls[1].op.name = "listConversations"
    /\ Get(Arg(calls[1].op.args, 1), "mailbox") = JSNumber(0)
    /\ Get(Arg(calls[1].op.args, 1), "page") = JSString("v")
    /\ ~HasParam(calls[1].req.url, "mailbox")
    /\ HasParam(calls[1].req.url, "page")
    /\ HasParam(calls[1].req.url, "tag")

\* C27: listSites always sends a page.  With the page argument omitted the URL
\* carries page=1, with a page number given, 0 included, it carries that
\* number; the docs_list_sites handler passes the page of its params on, so a
\* listSites request is never without the page parameter.
C27_ListSitesPage ==
    \A c \in Slots :
        (Sent(c) /\ calls[c].op.name = "listSites") =>
            LET page == Arg(calls[c].op.args, 1)
                url == calls[c].req.url
            IN /\ page = JSUndefined => url = DocsBaseUrl \o "/sites?page=1"
               /\ page.type = "number" =>
                     /\ url = DocsBaseUrl \o "/sites?page=" \o page.val
                     /\ HasParam(url, "page")
               /\ calls[c].tool = "docs_list_sites" =>
                     /\ page = Get(calls[c].params, "page")
                     /\ HasParam(url, "page")

\* docs_list_sites was invoked with page 0 and the request carries page=0.
C27_Witness ==
    /\ Sent(1)
    /\ calls[1].tool = "docs_list_sites"
    /\ Get(calls[1].params, "page") = JSNumber(0)
    /\ calls[1].req.url = "https://docsapi.helpscout.net/v1/sites?page=0"

\* ------------------------------------------- properties: unparsable bodies
\* A 2xx answer that is not 204, has no content-length of zero and has the
\* non-empty body text "<html>", which is not JSON.
Unparsable(r) ==
    /\ Success(r.status)
    /\ r.status # 204
    /\ r.contentLength # "0"
    /\ r.text = "<html>"

\* C28: non-empty unparsable body.  In both clients a 2xx answer that is not
\* 204, has a content-length other than zero and a non-empty body that is not
\* JSON makes the client call fail with the error of JSON.parse, and every
\* handler, acknowledging ones included, returns it as the failure envelope;
\* the empty result is returned only for an answer without a body or with an
\* empty one.
C28_UnparsableBody ==
    /\ (Answered /\ Unparsable(lastReturn.resp)) =>
          /\ lastReturn.cause = "parse"
          /\ lastReturn.result =
                [isError |-> TRUE,
                 text |-> "Error: Unexpected token < in JSON at position 0"]
    /\ (Answered /\ ~lastReturn.ack
            /\ lastReturn.result = [isError |-> FALSE, text |-> "{}"]) =>
          Bodyless(lastReturn.resp)

\* A Docs call that passes the result on was answered 200 with the body
\* "<html>" and returned the failure envelope.
C28_Witness ==
    /\ Answered
    /\ lastReturn.family = "docs"
    /\ ~lastReturn.ack
    /\ lastReturn.resp.status = 200
    /\ lastReturn.resp.text = "<html>"
    /\ lastReturn.result.isError

====
